---- MODULE Spec2Model ----
(***************************************************************************)
(* The index ingestion pipeline of pkg/index: ReceiveBlob, commit and the  *)
(* deletes cache, IsDeleted, Reindex, over a sorted key/value store whose  *)
(* CommitBatch is the MongoDB implementation of pkg/sorted/mongo.          *)
(***************************************************************************)
EXTENDS Integers, Sequences, FiniteSets, TLC

\* ------------------------------------------------------------------ bounds
MaxFail == 1        \* CommitBatch failures the backend may produce in one run
MaxReindex == 1     \* calls of Reindex in one run
DateMax == 9        \* largest claim date; dates are 1..DateMax

\* const j = 4 of Reindex: the size of its worker pool
ReindexWorkers == 4
\* make(chan blob.Ref, 32) of Reindex: the capacity of blobc
BlobcCap == 32

\* ------------------------------------------------------- the blob universe
\* Blobs are content-addressed, so a ref determines its content.  SortedRefs
\* lists the refs in BlobRef (enumeration) order; that order is unrelated to
\* the order in which the blobs were created.
\*   kind    what the sniffer finds: "opaque", "permanode", "claim", "file"
\*   target  of a (delete) claim: the ref it targets
\*   date    of a claim: its claimDate
\*   sigOK   of a claim: whether jsonsign verification succeeds
\*   chunk   of a file: the ref of the blob holding its contents
\* "p" is a permanode, "d1" deletes "p", "d2" deletes "d1", "d3" deletes "d2",
\* "o" is an opaque blob, "dx" is a delete claim targeting "o", "bs" is a
\* delete claim of "p" whose signature does not verify, "f" is a file whose
\* contents are in "o".
SortedRefs == << "d2", "p", "d1", "d3", "o", "dx", "bs", "f" >>

Blobs == { SortedRefs[i] : i \in 1..Len(SortedRefs) }

Blob(kind, target, date, sigOK, chunk) ==
  [kind |-> kind, target |-> target, date |-> date, sigOK |-> sigOK, chunk |-> chunk]

BlobTable ==
  [ b \in Blobs |->
      CASE b = "p"  -> Blob("permanode", "", 0, TRUE, "")
        [] b = "d1" -> Blob("claim", "p", 1, TRUE, "")
        [] b = "d2" -> Blob("claim", "d1", 2, TRUE, "")
        [] b = "d3" -> Blob("claim", "d2", 3, TRUE, "")
        [] b = "o"  -> Blob("opaque", "", 0, TRUE, "")
        [] b = "dx" -> Blob("claim", "o", 4, TRUE, "")
        [] b = "bs" -> Blob("claim", "p", 5, FALSE, "")
        [] b = "f"  -> Blob("file", "", 0, TRUE, "o") ]

\* The position of a ref in enumeration order, and blob.Ref.Less.
RefIndex(b) == CHOOSE i \in 1..Len(SortedRefs) : SortedRefs[i] = b
Less(a, b) == RefIndex(a) < RefIndex(b)

Procs == 1..ReindexWorkers

VARIABLES
  env,          \* what the environment of this run does: [blobs, clients,
                \* faults]: the blobs that clients upload, how many
                \* ReceiveBlob calls they have in flight at once, whether
                \* the backends may fail
  store,        \* Index.BlobSource: the refs the blob storage holds
  kv,           \* Index.s: the rows of the sorted key/value store
  deletes,      \* Index.deletes.m: target -> list of deletion{deleter, when}
  dlock,        \* Index.deletes.RWMutex: [w |-> writer or 0, r |-> nr of readers]
  corpusOn,     \* Index.corpus != nil
  corpusBlobs,  \* Corpus.blobs: ref -> camliType, for the refs it knows
  corpusGen,    \* Corpus.gen
  pc,           \* per goroutine running ReceiveBlob: its position
  mode,         \* per goroutine: "ext" (a client's call) or "worker" (Reindex)
  blobOf,       \* per goroutine: the blobRef argument of its ReceiveBlob
  mm,           \* per goroutine: its mutationMap [kv, deletes]
  ret,          \* the return of ReceiveBlob that the last step made, if it
                \* made one: [p, blob, result]
  rd,           \* the goroutine calling IsDeleted: [pc, arg, seen]
  rx,           \* Reindex: [pc, start, after, blobc, closed, enumErr, nerr],
                \* and of the last call, until the next upload: result, and
                \* wasDeleted, the blobs that were deleted when it began;
                \* given counts, per ref, the calls of Index.reindex
  fails,        \* CommitBatch failures so far
  reindexes,    \* Reindex calls so far
  qin,          \* the call of a query function that this run makes: [op, ...]
                \* with the arguments and the data the function reads
  qout,         \* what that call has returned: [op, ...]
  en,           \* per enumerating goroutine (a source's EnumerateBlobs, a
                \* Corpus.Enumerate*Locked): [kind, pc, stock, after, limit,
                \* items, buf, cap, closed, result, reading, got, mayFail];
                \* buf is its destination channel, closed counts the
                \* close(dest) calls
  ctxDone,      \* the context of the enumeration has been cancelled
  me,           \* the MergedEnumerate call, its dest channel and the
                \* receiver of dest
  ea,           \* the EnumerateAll call and the goroutine that calls fn
  co,           \* a Corpus being built from the index rows and then fed by
                \* addBlob: [pc, building, rows, claims, pending, last]
  cm,           \* Corpus.mu and what addBlob has merged: [w |-> writer or
                \* 0, r |-> nr of readers, rows |-> merged rows other than
                \* meta, todo |-> rows the running addBlob still merges,
                \* fed |-> per blob the rows its addBlob was given]
  hc,           \* a client.Client: its HTTP gate, its have cache and the
                \* requests of its callers
  cx,           \* a parent context.Context, its child and the goroutine
                \* that New started
  hub,          \* the wsHub, its channels and the connections' goroutines
  host,         \* an importer Host, its runs and its callers
  sh            \* a signhandler Handler, its destination and its callers

\* The variables of the index and its pipeline.
indexVars == << env, store, kv, deletes, dlock, corpusOn, corpusBlobs,
                corpusGen, pc, mode, blobOf, mm, ret, rd, rx, fails,
                reindexes >>

\* The variables of the runs that call one function on given data, and of
\* the enumerations.
others == << qin, qout, en, ctxDone, me, ea, co, hc, cx, hub, host, sh, cm >>

vars == << env, store, kv, deletes, dlock, corpusOn, corpusBlobs,
           corpusGen, pc, mode, blobOf, mm, ret, rd, rx, fails, reindexes,
           co, hc, cx, hub, host, sh, cm, qin, qout, en, ctxDone, me, ea >>

\* ------------------------------------------------------------- index rows
\* A row of the sorted store: fam is the key family, a, b, c are the parts
\* of the key after the family (a and c are refs or key ids, b is a date or
\* a reversed date), v is the string value and r a blobref value.
Row(fam, a, b, c, v, r) == [fam |-> fam, a |-> a, b |-> b, c |-> c, v |-> v, r |-> r]

\* reverseTimeString / unreverseTimeString: the digit-wise complement of the
\* fixed-width date.
reverseTimeString(d) == DateMax - d
unreverseTimeString(s) == DateMax - s

\* The one signer of this model: its key id is keyed by the public-key blob.
KeyId == "keyid"

haveRow(br) == Row("have", br, 0, "", "size", "")
metaRow(br) == Row("meta", br, 0, "", BlobTable[br].kind, "")
signerKeyIdRow == Row("signerkeyid", "signer", 0, "", KeyId, "")
schemaVersionRow == Row("schemaversion", "", 0, "", "version", "")
deletedRow(target, date, br) == Row("deleted", target, reverseTimeString(date), br, "", "")
recentRow(date, br, pn) == Row("recpn", KeyId, reverseTimeString(date), br, "", pn)
claimRow(pn, date, br, type) == Row("claim", pn, date, br, type, "signer")
wholeToFileRow(br) == Row("wholetofile", BlobTable[br].chunk, 0, br, "1", "")
fileInfoRow(br) == Row("fileinfo", br, 0, "", "info", "")
fileTimesRow(br) == Row("filetimes", br, 0, "", "times", "")

\* camliTypeFromMIME: the camliType that a meta row's value stands for.
camliTypeFromMIME(v) == IF v = "opaque" THEN "" ELSE v

\* Index.GetBlobMeta: from the corpus when one is attached, else from the
\* meta row.  The result is [ok, camliType].
GetBlobMeta(br) ==
  IF corpusOn
    THEN IF br \in DOMAIN corpusBlobs
           THEN [ok |-> TRUE, camliType |-> corpusBlobs[br]]
           ELSE [ok |-> FALSE, camliType |-> ""]
    ELSE IF \E row \in kv : row.fam = "meta" /\ row.a = br
           THEN [ok |-> TRUE,
                 camliType |-> camliTypeFromMIME(
                    (CHOOSE row \in kv : row.fam = "meta" /\ row.a = br).v)]
           ELSE [ok |-> FALSE, camliType |-> ""]

\* ------------------------------------------------------- the deletes cache
deletion(deleter, when) == [deleter |-> deleter, when |-> when]

\* sort.Sort(sort.Reverse(byDeletionDate(l))): the list ordered by date,
\* newest first.  Two entries of one list have equal dates only when they
\* are equal (each claim of BlobTable has its own date), so the order that
\* the unstable sort gives to equal dates does not show.
\* A variant of sortReverseByDeletionDate that leaves the list as it is.
deletionsUnsorted(l) == l

RECURSIVE sortReverseByDeletionDate(_)
sortReverseByDeletionDate(l) ==
  IF Len(l) <= 1 THEN l
  ELSE LET init == sortReverseByDeletionDate(SubSeq(l, 1, Len(l) - 1))
           last == l[Len(l)]
           older == { i \in 1..Len(init) : init[i].when < last.when }
           pos == IF older = {} THEN Len(init) + 1
                  ELSE CHOOSE i \in older : \A k \in older : i <= k
       IN SubSeq(init, 1, pos - 1) \o << last >> \o SubSeq(init, pos, Len(init))

\* A variant of updateDeletesCacheMap that files the deletion under the
\* deleter instead of the target.
updateDeletesCacheMapUnderDeleter(m, deleteClaim) ==
  LET targetDeletions == Append(m[deleteClaim],
                                deletion(deleteClaim, BlobTable[deleteClaim].date))
  IN [m EXCEPT ![deleteClaim] = targetDeletions]

\* The body of Index.updateDeletesCache, as a function of the map.
updateDeletesCacheMap(m, deleteClaim) ==
  LET target == BlobTable[deleteClaim].target
      targetDeletions == Append(m[target], deletion(deleteClaim, BlobTable[deleteClaim].date))
  IN [m EXCEPT ![target] = sortReverseByDeletionDate(targetDeletions)]

\* commit without its updateDeletesCache loop: the variant C6 excludes.
updateDeletesCacheSkipped(m, cls) == m

RECURSIVE updateDeletesCacheAll(_, _)
updateDeletesCacheAll(m, cls) ==
  IF cls = << >> THEN m
  ELSE updateDeletesCacheAll(updateDeletesCacheMap(m, Head(cls)), Tail(cls))

\* make(map[blob.Ref][]deletion): a missing key reads as the empty list.
emptyDeletes == [b \in Blobs \cup {""} |-> << >>]

\* kvDeleted: the claim that a deleted| row stands for.
kvDeleted(row) == [BlobRef |-> row.c, Target |-> row.a, Date |-> unreverseTimeString(row.b)]

RECURSIVE seqOfDeletions(_)
seqOfDeletions(S) ==
  IF S = {} THEN << >>
  ELSE LET x == CHOOSE x \in S : TRUE
       IN Append(seqOfDeletions(S \ {x}), x)

\* Index.initDeletesCache: the map built from the deleted| rows of the store.
initDeletesCache(rows) ==
  [ t \in Blobs \cup {""} |->
      sortReverseByDeletionDate(seqOfDeletions(
        { deletion(kvDeleted(row).BlobRef, kvDeleted(row).Date) :
            row \in { x \in rows : x.fam = "deleted" /\ x.a = t } })) ]

\* Index.isDeleted on the map m (the caller holds the read lock).
RECURSIVE isDeleted(_, _)
isDeleted(m, br) ==
  \E i \in 1..Len(m[br]) : ~isDeleted(m, m[br][i].deleter)

\* Index.isDeletedNoCache: the same recursion over the deleted| rows.
RECURSIVE isDeletedNoCache(_, _)
isDeletedNoCache(rows, br) ==
  \E row \in rows :
     /\ row.fam = "deleted"
     /\ row.a = br
     /\ ~isDeletedNoCache(rows, kvDeleted(row).BlobRef)

\* ------------------------------------------------------ populateMutationMap
\* Index.populateDeleteClaim: the rows it adds for the delete claim br.
populateDeleteClaim(br) ==
  LET target == BlobTable[br].target
      date == BlobTable[br].date
      meta == GetBlobMeta(target)
  IN IF target = "" THEN {}
     ELSE IF ~meta.ok THEN {}
     ELSE IF meta.camliType # "permanode" /\ meta.camliType # "claim" THEN {}
     ELSE IF meta.camliType = "claim" THEN { deletedRow(target, date, br) }
     ELSE { deletedRow(target, date, br),
            recentRow(date, br, target),
            claimRow(target, date, br, "delete") }

\* populateClaim without the vr.Verify() test: the variant C3 excludes.
populateClaimUnverified(br) ==
  [err |-> FALSE,
   kv |-> { signerKeyIdRow } \cup populateDeleteClaim(br),
   deletes |-> << br >>]

\* Index.populateClaim: [err, kv, deletes].  Every claim of BlobTable is a
\* delete claim.
populateClaim(br) ==
  IF ~BlobTable[br].sigOK
    THEN [err |-> TRUE, kv |-> {}, deletes |-> << >>]
    ELSE [err |-> FALSE,
          kv |-> { signerKeyIdRow } \cup populateDeleteClaim(br),
          deletes |-> << br >>]

\* seekFetcherMissTracker.Fetch over the blobs of the file br: the refs it
\* fails to load, which it keeps in a field of the fetcher that populateFile
\* makes and drops.
missing(br) == { BlobTable[br].chunk } \ store

\* populateFile returning the error of NewFileReader or io.Copy: the variant
\* C12 excludes.
populateFileFatal(br) ==
  IF missing(br) = {}
    THEN [err |-> FALSE,
          kv |-> { wholeToFileRow(br), fileInfoRow(br), fileTimesRow(br) },
          deletes |-> << >>]
    ELSE [err |-> TRUE, kv |-> {}, deletes |-> << >>]

\* Index.populateFile: the rows of a file whose contents can be read from
\* BlobSource; no rows and no error when they cannot.
populateFile(br) ==
  IF missing(br) = {}
    THEN [err |-> FALSE,
          kv |-> { wholeToFileRow(br), fileInfoRow(br), fileTimesRow(br) },
          deletes |-> << >>]
    ELSE [err |-> FALSE, kv |-> {}, deletes |-> << >>]

\* populateMutationMap dropping have: and meta: when the file step adds no
\* row (the TODO at its head): the variant C7 excludes.
populateMutationMapBogusDropped(br) ==
  LET base == { haveRow(br), metaRow(br) }
      sub == CASE BlobTable[br].kind = "claim" -> populateClaim(br)
               [] BlobTable[br].kind = "file" -> populateFile(br)
               [] OTHER -> [err |-> FALSE, kv |-> {}, deletes |-> << >>]
  IN IF sub.err THEN [err |-> TRUE, kv |-> {}, deletes |-> << >>]
     ELSE [err |-> FALSE,
           kv |-> IF BlobTable[br].kind = "file" /\ sub.kv = {} THEN {} ELSE base \cup sub.kv,
           deletes |-> sub.deletes]

\* Index.populateMutationMap: [err, kv, deletes].
populateMutationMap(br) ==
  LET base == { haveRow(br), metaRow(br) }
      sub == CASE BlobTable[br].kind = "claim" -> populateClaim(br)
               [] BlobTable[br].kind = "file" -> populateFile(br)
               [] OTHER -> [err |-> FALSE, kv |-> {}, deletes |-> << >>]
  IN IF sub.err THEN [err |-> TRUE, kv |-> {}, deletes |-> << >>]
     ELSE [err |-> FALSE, kv |-> base \cup sub.kv, deletes |-> sub.deletes]

emptyMM == [kv |-> {}, deletes |-> << >>]

\* ------------------------------------------------------------------- Init
noReindex == [pc |-> "off", start |-> "", after |-> 0, blobc |-> << >>,
              closed |-> FALSE, enumErr |-> "none", nerr |-> 0, result |-> "none",
              wasDeleted |-> {}, given |-> [b \in Blobs |-> 0]]
idleReader == [pc |-> "idle", arg |-> "", seen |-> emptyDeletes]
noReturn == [p |-> 0, blob |-> "", result |-> "none"]

noQuery == [op |-> "none"]

\* index.New on an empty store: the schema version row, an empty deletes
\* cache; the corpus, when kept in memory, is empty too.
IndexInit(e, c) ==
  /\ env = e
  /\ store = {}
  /\ kv = { schemaVersionRow }
  /\ deletes = emptyDeletes
  /\ dlock = [w |-> 0, r |-> 0]
  /\ corpusOn = c
  /\ corpusBlobs = << >>
  /\ corpusGen = 0
  /\ pc = [p \in Procs |-> "idle"]
  /\ mode = [p \in Procs |-> "ext"]
  /\ blobOf = [p \in Procs |-> ""]
  /\ mm = [p \in Procs |-> emptyMM]
  /\ ret = noReturn
  /\ rd = idleReader
  /\ rx = noReindex
  /\ fails = 0
  /\ reindexes = 0

\* No enumeration runs.
noMerge == [ pc |-> "off" ]
noEnumAll == [ pc |-> "off" ]
\* Corpus.mu unlocked, nothing merged.
corpusMu == [ w |-> 0, r |-> 0, rows |-> {}, todo |-> {}, fed |-> << >> ]
noCorpus == [ pc |-> "off" ]
noClient == [ pc |-> "off" ]
noContext == [ pc |-> "off" ]
noHub == [ pc |-> "off" ]
noHost == [ pc |-> "off" ]
noSign == [ pc |-> "off" ]
noEnum == /\ en = << >>
          /\ ctxDone = FALSE
          /\ me = noMerge
          /\ ea = noEnumAll
          /\ co = noCorpus
          /\ hc = noClient
          /\ cx = noContext
          /\ hub = noHub
          /\ host = noHost
          /\ sh = noSign
          /\ cm = corpusMu

InitIndex(e, c) ==
  /\ IndexInit(e, c)
  /\ qin = noQuery
  /\ qout = noQuery
  /\ noEnum

\* ----------------------------------------------------------- ReceiveBlob
\* A return of ReceiveBlob in goroutine p with result r ("ok" or "err"); a
\* Reindex worker counts its errors in nerr.
Return(p, r) ==
  /\ pc' = [pc EXCEPT ![p] = "idle"]
  /\ ret' = [p |-> p, blob |-> blobOf[p], result |-> r]
  /\ blobOf' = [blobOf EXCEPT ![p] = ""]
  /\ mm' = [mm EXCEPT ![p] = emptyMM]
  /\ rx' = IF mode[p] = "worker" /\ r = "err" THEN [rx EXCEPT !.nerr = @ + 1] ELSE rx

\* ReceiveBlob without the have: test: the variant C8 excludes.
ReceiveEnterNoHaveCheck(p, b) ==
  /\ pc' = [pc EXCEPT ![p] = "populate"]
  /\ blobOf' = [blobOf EXCEPT ![p] = b]
  /\ ret' = noReturn

\* ReceiveBlob(b) in goroutine p up to the have: check: it returns at once
\* when the have: row is there.
ReceiveEnter(p, b) ==
  IF haveRow(b) \in kv
    THEN /\ ret' = [p |-> p, blob |-> b, result |-> "skipped"]
         /\ UNCHANGED << pc, blobOf >>
    ELSE /\ pc' = [pc EXCEPT ![p] = "populate"]
         /\ blobOf' = [blobOf EXCEPT ![p] = b]
         /\ ret' = noReturn

\* A client's blob reaches the storage and then the index.
ReceiveBlob(p, b) ==
  /\ rx.pc = "off"
  /\ p <= env.clients
  /\ pc[p] = "idle" /\ mode[p] = "ext"
  /\ b \in env.blobs
  /\ store' = store \cup {b}
  /\ ReceiveEnter(p, b)
  /\ rx' = [rx EXCEPT !.result = "none", !.wasDeleted = {}]
  /\ UNCHANGED << others, env, kv, deletes, dlock, corpusOn, corpusBlobs, corpusGen,
                  mode, mm, rd, fails, reindexes >>

\* sniffer.Parse and populateMutationMap.
Populate(p) ==
  /\ pc[p] = "populate"
  /\ LET r == populateMutationMap(blobOf[p])
     IN IF r.err
          THEN Return(p, "err")
          ELSE /\ mm' = [mm EXCEPT ![p] = [kv |-> r.kv, deletes |-> r.deletes]]
               /\ pc' = [pc EXCEPT ![p] = "commit"]
               /\ ret' = noReturn
               /\ UNCHANGED << blobOf, rx >>
  /\ UNCHANGED << others, env, store, kv, deletes, dlock, corpusOn, corpusBlobs,
                  corpusGen, mode, rd, fails, reindexes >>

\* A Lock that does not wait for readers: the variant C2 excludes.
canLockDespiteReaders == dlock.w = 0

\* sync.RWMutex: Lock waits until there is neither a writer nor a reader,
\* RLock until there is no writer.
canLock == dlock.w = 0 /\ dlock.r = 0
canRLock == dlock.w = 0

\* keyValue.CommitBatch of pkg/sorted/mongo: the mutations are upserted one
\* by one in the order of the batch, which is the iteration order of the Go
\* map mm.kv; an upsert that fails ends the loop with the earlier ones
\* applied.  done is the set of the rows that were applied.
CommitBatch(done) == kv' = kv \cup done

\* Index.commit up to a successful CommitBatch: the write lock is taken and
\* kept.
CommitOK(p) ==
  /\ pc[p] = "commit"
  /\ canLock
  /\ dlock' = [dlock EXCEPT !.w = p]
  /\ CommitBatch(mm[p].kv)
  /\ pc' = [pc EXCEPT ![p] = "updcache"]
  /\ ret' = noReturn
  /\ UNCHANGED << others, env, store, deletes, corpusOn, corpusBlobs, corpusGen,
                  mode, blobOf, mm, rd, rx, fails, reindexes >>

\* Index.commit when CommitBatch fails: commit returns the error (the
\* deferred Unlock runs) and ReceiveBlob returns it.
CommitFail(p) ==
  /\ pc[p] = "commit"
  /\ canLock
  /\ env.faults /\ fails < MaxFail
  /\ fails' = fails + 1
  /\ \E done \in (SUBSET mm[p].kv) \ { mm[p].kv } : CommitBatch(done)
  /\ Return(p, "err")
  /\ UNCHANGED << others, env, store, deletes, dlock, corpusOn, corpusBlobs, corpusGen,
                  mode, rd, reindexes >>

\* The rest of Index.commit: updateDeletesCache for each noted delete, then
\* the deferred Unlock; ReceiveBlob returns unless a corpus is attached.
UpdateDeletesCache(p) ==
  /\ pc[p] = "updcache"
  /\ deletes' = updateDeletesCacheAll(deletes, mm[p].deletes)
  /\ dlock' = [dlock EXCEPT !.w = 0]
  /\ IF corpusOn
       THEN /\ pc' = [pc EXCEPT ![p] = "addblob"]
            /\ ret' = noReturn
            /\ UNCHANGED << blobOf, mm, rx >>
       ELSE Return(p, "ok")
  /\ UNCHANGED << others, env, store, kv, corpusOn, corpusBlobs, corpusGen,
                  mode, rd, fails, reindexes >>

\* Corpus.mergeMetaRow for the meta rows of a mutation map.
mergeMetaRows(blobs, rows) ==
  [ b \in DOMAIN blobs \cup { row.a : row \in { x \in rows : x.fam = "meta" } } |->
      IF b \in DOMAIN blobs THEN blobs[b] ELSE camliTypeFromMIME(metaRow(b).v) ]

\* Corpus.addBlob under the corpus lock: a blob it knows is skipped, else
\* gen is incremented and the rows of slurped key types are merged.
addBlob(p) ==
  /\ pc[p] = "addblob"
  /\ IF blobOf[p] \in DOMAIN corpusBlobs
       THEN UNCHANGED << corpusBlobs, corpusGen >>
       ELSE /\ corpusGen' = corpusGen + 1
            /\ corpusBlobs' = mergeMetaRows(corpusBlobs, mm[p].kv)
  /\ Return(p, "ok")
  /\ UNCHANGED << others, env, store, kv, deletes, dlock, corpusOn, mode, rd,
                  fails, reindexes >>

\* -------------------------------------------------------------- IsDeleted
\* Index.IsDeleted(x): RLock, and the cache as it is then.
IsDeletedEnter(x) ==
  /\ rx.pc = "off"
  /\ rd.pc = "idle"
  /\ x \in env.blobs
  /\ canRLock
  /\ dlock' = [dlock EXCEPT !.r = @ + 1]
  /\ rd' = [pc |-> "walk", arg |-> x, seen |-> deletes]
  /\ ret' = noReturn
  /\ UNCHANGED << others, env, store, kv, deletes, corpusOn, corpusBlobs, corpusGen,
                  pc, mode, blobOf, mm, rx, fails, reindexes >>

\* The traversal isDeleted(x) has ended: the deferred RUnlock.
IsDeletedReturn ==
  /\ rd.pc = "walk"
  /\ rd' = idleReader
  /\ dlock' = [dlock EXCEPT !.r = @ - 1]
  /\ ret' = noReturn
  /\ UNCHANGED << others, env, store, kv, deletes, corpusOn, corpusBlobs, corpusGen,
                  pc, mode, blobOf, mm, rx, fails, reindexes >>

\* ---------------------------------------------------------------- Reindex
\* The refs of the source that the enumeration has not reached yet.
toEnumerate == { i \in 1..Len(SortedRefs) : i > rx.after /\ SortedRefs[i] \in store }

\* Reindex up to the start of its goroutines: Wipe, the schema version row,
\* the enumerating goroutine and the j workers.  start is the value of
\* CAMLI_REINDEX_START ("" when unset).  It runs while the server handles no
\* request.
ReindexBegin(start) ==
  /\ reindexes < MaxReindex
  /\ rx.pc = "off"
  /\ rd.pc = "idle"
  /\ \A p \in Procs : pc[p] = "idle" /\ mode[p] = "ext"
  /\ reindexes' = reindexes + 1
  /\ kv' = { schemaVersionRow }
  /\ mode' = [p \in Procs |-> "worker"]
  /\ ret' = noReturn
  /\ rx' = [noReindex EXCEPT !.pc = "run", !.start = start,
                           !.wasDeleted = { x \in Blobs : isDeleted(deletes, x) }]
  /\ UNCHANGED << others, env, store, deletes, dlock, corpusOn, corpusBlobs, corpusGen,
                  pc, blobOf, mm, rd, fails >>

\* The callback that Reindex gives to EnumerateAll, on the next blob of the
\* source in BlobRef order: a ref before reindexStart is passed over, any
\* other is sent on blobc.
EnumerateNext ==
  /\ rx.pc = "run" /\ ~rx.closed
  /\ toEnumerate # {}
  /\ LET i == CHOOSE i \in toEnumerate : \A k \in toEnumerate : i <= k
         br == SortedRefs[i]
     IN IF rx.start # "" /\ Less(br, rx.start)
          THEN rx' = [rx EXCEPT !.after = i]
          ELSE /\ Len(rx.blobc) < BlobcCap
               /\ rx' = [rx EXCEPT !.after = i, !.blobc = Append(@, br)]
  /\ ret' = noReturn
  /\ UNCHANGED << others, env, store, kv, deletes, dlock, corpusOn, corpusBlobs,
                  corpusGen, pc, mode, blobOf, mm, rd, fails, reindexes >>

\* EnumerateAll returns nil after the last blob: enumErr <- nil, close(blobc).
EnumerateDone ==
  /\ rx.pc = "run" /\ ~rx.closed
  /\ toEnumerate = {}
  /\ rx' = [rx EXCEPT !.closed = TRUE, !.enumErr = "nil"]
  /\ ret' = noReturn
  /\ UNCHANGED << others, env, store, kv, deletes, dlock, corpusOn, corpusBlobs,
                  corpusGen, pc, mode, blobOf, mm, rd, fails, reindexes >>

\* EnumerateAll returns the error of the source's EnumerateBlobs.
EnumerateFail ==
  /\ rx.pc = "run" /\ ~rx.closed
  /\ env.faults /\ fails < MaxFail
  /\ fails' = fails + 1
  /\ rx' = [rx EXCEPT !.closed = TRUE, !.enumErr = "err"]
  /\ ret' = noReturn
  /\ UNCHANGED << others, env, store, kv, deletes, dlock, corpusOn, corpusBlobs,
                  corpusGen, pc, mode, blobOf, mm, rd, reindexes >>

\* A worker takes a ref from blobc: Index.reindex fetches the blob and
\* gives it to ReceiveBlob.
WorkerReceive(p) ==
  /\ mode[p] = "worker" /\ pc[p] = "idle"
  /\ rx.blobc # << >>
  /\ ReceiveEnter(p, Head(rx.blobc))
  /\ rx' = [rx EXCEPT !.blobc = Tail(@), !.given[Head(rx.blobc)] = @ + 1]
  /\ UNCHANGED << others, env, store, kv, deletes, dlock, corpusOn, corpusBlobs,
                  corpusGen, mode, mm, rd, fails, reindexes >>

\* A worker's range over blobc ends: blobc is closed and drained.
WorkerExit(p) ==
  /\ mode[p] = "worker" /\ pc[p] = "idle"
  /\ rx.blobc = << >> /\ rx.closed
  /\ mode' = [mode EXCEPT ![p] = "ext"]
  /\ ret' = noReturn
  /\ UNCHANGED << others, env, store, kv, deletes, dlock, corpusOn, corpusBlobs,
                  corpusGen, pc, blobOf, mm, rd, rx, fails, reindexes >>

\* Reindex receives a non-nil enumErr and returns it at once.
ReindexEnumErr ==
  /\ rx.pc = "run"
  /\ rx.enumErr = "err"
  /\ rx' = [rx EXCEPT !.pc = "off", !.result = "err"]
  /\ ret' = noReturn
  /\ UNCHANGED << others, env, store, kv, deletes, dlock, corpusOn, corpusBlobs,
                  corpusGen, pc, mode, blobOf, mm, rd, fails, reindexes >>

\* Reindex returning without wg.Wait: the variant C11 excludes.
ReindexEndNoWait ==
  /\ rx.pc = "run"
  /\ rx.enumErr = "nil"
  /\ IF rx.nerr # 0
       THEN /\ rx' = [rx EXCEPT !.pc = "off", !.result = "err"]
            /\ UNCHANGED << deletes, dlock >>
       ELSE /\ rx' = [rx EXCEPT !.pc = "off", !.result = "nil"]
            /\ deletes' = initDeletesCache(kv)
            /\ dlock' = [w |-> 0, r |-> 0]
  /\ ret' = noReturn
  /\ UNCHANGED << others, env, store, kv, corpusOn, corpusBlobs, corpusGen,
                  pc, mode, blobOf, mm, rd, fails, reindexes >>

\* Reindex returning without initDeletesCache: the variant C10 excludes.
ReindexEndCacheKept ==
  /\ rx.pc = "run"
  /\ rx.enumErr = "nil"
  /\ \A p \in Procs : mode[p] = "ext"
  /\ rx' = [rx EXCEPT !.pc = "off", !.result = IF rx.nerr # 0 THEN "err" ELSE "nil"]
  /\ ret' = noReturn
  /\ UNCHANGED << others, env, store, kv, deletes, dlock, corpusOn, corpusBlobs, corpusGen,
                  pc, mode, blobOf, mm, rd, fails, reindexes >>

\* Reindex after a nil enumErr and wg.Wait: an error when a blob failed to
\* re-index, else initDeletesCache and nil.
ReindexEnd ==
  /\ rx.pc = "run"
  /\ rx.enumErr = "nil"
  /\ \A p \in Procs : mode[p] = "ext"
  /\ IF rx.nerr # 0
       THEN /\ rx' = [rx EXCEPT !.pc = "off", !.result = "err"]
            /\ UNCHANGED << deletes, dlock >>
       ELSE /\ rx' = [rx EXCEPT !.pc = "off", !.result = "nil"]
            /\ deletes' = initDeletesCache(kv)
            /\ dlock' = [w |-> 0, r |-> 0]
  /\ ret' = noReturn
  /\ UNCHANGED << others, env, store, kv, corpusOn, corpusBlobs, corpusGen,
                  pc, mode, blobOf, mm, rd, fails, reindexes >>

\* ------------------------------------------------------- specifications
Env(blobs, clients, faults) ==
  [blobs |-> blobs, clients |-> clients, faults |-> faults]

Ingest ==
  \/ \E p \in Procs, b \in Blobs : ReceiveBlob(p, b)
  \/ \E p \in Procs : Populate(p)
  \/ \E p \in Procs : CommitOK(p)
  \/ \E p \in Procs : UpdateDeletesCache(p)

Queries ==
  \/ \E x \in Blobs : IsDeletedEnter(x)
  \/ IsDeletedReturn

Reindexing ==
  \/ \E start \in {"", "d1"} : ReindexBegin(start)
  \/ EnumerateNext
  \/ EnumerateDone
  \/ \E p \in Procs : WorkerReceive(p)
  \/ \E p \in Procs : WorkerExit(p)
  \/ ReindexEnd

Faults == \E p \in Procs : CommitFail(p)

Corpus == \E p \in Procs : addBlob(p)

\* SpecIngest: one client at a time uploads the blobs of the universe, with
\* or without a corpus; IsDeleted is called in between.
InitIngest == \E c \in BOOLEAN : InitIndex(Env(Blobs, 1, FALSE), c)
NextIngest == Ingest \/ Corpus \/ Queries
SpecIngest == InitIngest /\ [][NextIngest]_vars

\* SpecFaults: as SpecIngest on a part of the universe, with a backend whose
\* CommitBatch may fail.
InitFaults == \E c \in BOOLEAN : InitIndex(Env({"p", "d1", "bs", "f"}, 1, TRUE), c)
NextFaults == Ingest \/ Corpus \/ Faults
SpecFaults == InitFaults /\ [][NextFaults]_vars

\* SpecConc: two clients upload at the same time while IsDeleted is called.
InitConc == InitIndex(Env({"p", "d1", "d2"}, 2, FALSE), FALSE)
NextConc == Ingest \/ Queries
SpecConc == InitConc /\ [][NextConc]_vars

\* SpecReindex: one client at a time uploads, and Reindex is called.
InitReindex == InitIndex(Env({"p", "d1", "d2", "bs"}, 1, FALSE), FALSE)
NextReindex == Ingest \/ Reindexing
SpecReindex == InitReindex /\ [][NextReindex]_vars

Init == InitIngest
Next == NextIngest
Spec == SpecIngest

\* ---------------------------------------------------------------------------
\* Properties
\* ---------------------------------------------------------------------------

\* No goroutine is inside ReceiveBlob.
Quiescent == \A p \in Procs : pc[p] = "idle"

\* The delete claim d has an entry in the deletes cache m.
InCache(m, d) ==
  \E i \in 1..Len(m[BlobTable[d].target]) : m[BlobTable[d].target][i].deleter = d

IsDeleteOf(d, kinds) ==
  /\ BlobTable[d].kind = "claim"
  /\ BlobTable[BlobTable[d].target].kind \in kinds

C1_ChainAnswers ==
  /\ (Quiescent /\ \A b \in Blobs : haveRow(b) \in kv <=> b \in {"p", "d1"})
        => isDeleted(deletes, "p")
  /\ (Quiescent /\ \A b \in Blobs : haveRow(b) \in kv <=> b \in {"p", "d1", "d2"})
        => ~isDeleted(deletes, "p")

\* C2: commit holds the write lock of the deletes cache from BeginBatch to
\* the last updateDeletesCache, and IsDeleted holds the read lock while it
\* walks the cache: the walk sees the cache it started on, and never a
\* commit that is between CommitBatch and its cache update.
C2_CommitAtomicForIsDeleted ==
  /\ \A p \in Procs : pc[p] = "updcache" => (dlock.w = p /\ dlock.r = 0)
  /\ rd.pc = "walk" =>
       /\ dlock.r > 0 /\ dlock.w = 0
       /\ deletes = rd.seen
       /\ \A p \in Procs : pc[p] # "updcache"

\* IsDeleted walks the cache while another goroutine waits to commit a
\* delete claim.
C2_Witness ==
  /\ rd.pc = "walk"
  /\ \E p \in Procs : pc[p] = "commit" /\ mm[p].deletes # << >>

BadSig(b) == b # "" /\ BlobTable[b].kind = "claim" /\ ~BlobTable[b].sigOK

\* The rows a blob's own ingest writes carry the blob's ref.
RowsOf(rows, b) ==
  { row \in rows :
      \/ row.fam \in {"have", "meta", "fileinfo", "filetimes"} /\ row.a = b
      \/ row.fam \in {"deleted", "recpn", "claim", "wholetofile"} /\ row.c = b }

\* C3 as stated: a claim whose signature does not verify is accepted, its
\* have: and meta: rows are committed, and it leaves no claim rows and no
\* entry in the deletes cache.
C3_BadSignatureAccepted ==
  (ret # noReturn /\ BadSig(ret.blob)) =>
     /\ ret.result = "ok"
     /\ { haveRow(ret.blob), metaRow(ret.blob) } \subseteq kv
     /\ RowsOf(kv, ret.blob) \subseteq { haveRow(ret.blob), metaRow(ret.blob) }
     /\ ~InCache(deletes, ret.blob)

\* C3 amended: ReceiveBlob of a claim whose signature does not verify returns
\* the verification error and commits nothing: the step changes neither the
\* rows nor the deletes cache nor the corpus, and no row of the blob, have:
\* and meta: included, is in the index.
C3_BadSignatureRejected ==
  [][ (ret' # noReturn /\ BadSig(ret'.blob)) =>
        /\ ret'.result = "err"
        /\ kv' = kv /\ deletes' = deletes
        /\ corpusBlobs' = corpusBlobs /\ corpusGen' = corpusGen
        /\ RowsOf(kv', ret'.blob) = {}
        /\ ~InCache(deletes', ret'.blob) ]_vars

\* ReceiveBlob of the claim with the bad signature has returned its error.
C3_Witness == ret.blob = "bs" /\ ret.result = "err" /\ haveRow("bs") \notin kv

\* C4: a delete claim whose target is not a known permanode or claim has no
\* index effect: no deleted| row, no entry in the deletes cache, and the
\* target is not reported deleted.
C4_InvalidDeleteNoEffect ==
  \A d \in Blobs : IsDeleteOf(d, {"opaque", "file"}) =>
     /\ \A row \in kv : row.fam = "deleted" => row.c # d
     /\ ~InCache(deletes, d)
     /\ ~isDeleted(deletes, BlobTable[d].target)

\* C5: a Reindex of the whole store that returns nil leaves every query
\* answer as it was: the blobs IsDeleted reports are those it reported when
\* Reindex began.
C5_ReindexKeepsAnswers ==
  (rx.pc = "off" /\ rx.result = "nil" /\ rx.start = "") =>
     { x \in Blobs : isDeleted(deletes, x) } = rx.wasDeleted

C7_BaseRowsAlways ==
  (ret # noReturn /\ ret.result # "skipped") =>
     { haveRow(ret.blob), metaRow(ret.blob) } \subseteq kv

\* C7 amended: every ReceiveBlob of a blob not yet indexed that returns nil
\* has committed the blob's have: and meta: rows, whatever the blob's kind,
\* a file whose contents cannot be read included; one that returns an error
\* from populateMutationMap has committed nothing.
C7_BaseRowsOnSuccess ==
  [][ /\ ret'.result = "ok" =>
           { haveRow(ret'.blob), metaRow(ret'.blob) } \subseteq kv'
      /\ \A p \in Procs : (pc[p] = "populate" /\ pc'[p] = "idle") =>
           (ret'.result = "err" /\ kv' = kv /\ haveRow(ret'.blob) \notin kv') ]_vars

\* ReceiveBlob of a file whose chunk is missing has returned nil: the base
\* rows are there, the file rows are not.
C7_Witness ==
  /\ ret.result = "ok" /\ ret.blob = "f"
  /\ fileInfoRow("f") \notin kv
  /\ haveRow("f") \in kv

\* C8: ReceiveBlob of a blob whose have: row is present returns nil at once:
\* it goes on to populateMutationMap only when the row is absent, and the
\* skipped call changes neither rows, deletes cache nor corpus.
C8_PresentBlobSkipped ==
  [][ /\ \A p \in Procs : (pc[p] = "idle" /\ pc'[p] = "populate") =>
           haveRow(blobOf'[p]) \notin kv
      /\ ret'.result = "skipped" =>
           /\ haveRow(ret'.blob) \in kv
           /\ kv' = kv /\ deletes' = deletes
           /\ corpusBlobs' = corpusBlobs /\ corpusGen' = corpusGen
           /\ pc' = pc /\ mm' = mm ]_vars

\* ReceiveBlob of an indexed delete claim has been skipped, with a corpus
\* attached.
C8_Witness ==
  /\ ret.result = "skipped" /\ ret.blob = "d1"
  /\ corpusOn

\* C9: CommitBatch applies all the mutations of a batch or none of them, also
\* when it fails.
C9_BatchAllOrNothing ==
  [][ \A p \in Procs : (pc[p] = "commit" /\ pc'[p] # "commit") =>
        (kv' = kv \/ kv' = kv \cup mm[p].kv) ]_vars

\* The deleters the cache m holds for the blob t, and those of the rows.
CacheDeleters(m, t) == { m[t][i].deleter : i \in 1..Len(m[t]) }
RowDeleters(rows, t) == { row.c : row \in { r \in rows : r.fam = "deleted" /\ r.a = t } }

CacheIsOfRows ==
  \A t \in Blobs :
     /\ CacheDeleters(deletes, t) = RowDeleters(kv, t)
     /\ Len(deletes[t]) = Cardinality(RowDeleters(kv, t))

\* C10 as stated: when Reindex returns, with or without an error, the deletes
\* cache holds exactly the deletions of the deleted| rows.
C10_CacheRebuiltOnReturn ==
  (rx.pc = "off" /\ rx.result # "none") => CacheIsOfRows

\* C10 amended: when Reindex returns nil the deletes cache holds exactly the
\* deletions of the deleted| rows, each once, nothing of the cache of before
\* the wipe being left; when it returns an error the cache is not rebuilt.
C10_CacheRebuiltOnSuccess ==
  (rx.pc = "off" /\ rx.result = "nil") => CacheIsOfRows

\* Reindex has returned nil over a store with the delete claims d1 and d2,
\* and the rebuilt cache holds a deletion of p.
C10_Witness ==
  /\ rx.pc = "off" /\ rx.result = "nil"
  /\ deletes["p"] # << >>
  /\ { "d1", "d2" } \subseteq store

\* The refs of the source that a Reindex from the checkpoint start covers.
Covered(start) == { b \in store : ~(start # "" /\ Less(b, start)) }

\* C11: when Reindex returns nil, every blob of the source that is not less
\* than the checkpoint has been given to Index.reindex exactly once and no
\* other blob has, every such blob is indexed again, and none of the workers,
\* of which there are never more than 4, is still running.
C11_ReindexEveryBlobOnce ==
  /\ Cardinality({ p \in Procs : mode[p] = "worker" }) <= ReindexWorkers
  /\ (rx.pc = "off" /\ rx.result = "nil") =>
       /\ \A b \in Blobs : rx.given[b] = IF b \in Covered(rx.start) THEN 1 ELSE 0
       /\ \A b \in Covered(rx.start) : haveRow(b) \in kv
       /\ rx.blobc = << >>
       /\ \A p \in Procs : pc[p] = "idle" /\ mode[p] = "ext"

\* Reindex has returned nil from the checkpoint d1 over a store that holds
\* two blobs before it, which were passed over, and the blob d1.
C11_Witness ==
  /\ rx.pc = "off" /\ rx.result = "nil" /\ rx.start = "d1"
  /\ store = { "d2", "p", "d1" }
  /\ rx.given["d1"] = 1 /\ rx.given["p"] = 0 /\ rx.given["d2"] = 0

IsFile(b) == b # "" /\ BlobTable[b].kind = "file"

\* C12: a ReceiveBlob of a file schema blob whose chunk cannot be fetched
\* does not fail: when it returns, the blob's have: and meta: rows are in the
\* index and no wholetofile, fileinfo or filetimes row of the blob is.
C12_MissingChunkNotFatal ==
  [][ (ret' # noReturn /\ IsFile(ret'.blob) /\ BlobTable[ret'.blob].chunk \notin store') =>
        /\ ret'.result # "err"
        /\ RowsOf(kv', ret'.blob) = { haveRow(ret'.blob), metaRow(ret'.blob) } ]_vars

\* ReceiveBlob of the file f has returned nil while the blob of its contents
\* is not in the source.
C12_Witness ==
  /\ ret.blob = "f" /\ ret.result = "ok"
  /\ "o" \notin store
  /\ RowsOf(kv, "f") = { haveRow("f"), metaRow("f") }

\* C13: the failure of indexing a file on a missing chunk is not forgotten:
\* a ReceiveBlob of the file that returns when the chunk is in the source
\* (the retry of Index.reindex) leaves the file indexed.
C13_MissingChunkRetried ==
  (ret # noReturn /\ IsFile(ret.blob) /\ missing(ret.blob) = {}) =>
     fileInfoRow(ret.blob) \in kv

\* ---------------------------------------------------------------------------
\* Corpus: the claims of one permanode and the functions that read them
\* ---------------------------------------------------------------------------
MaxClaims == 3      \* claims in PermanodeMeta.Claims

\* camtypes.Claim, for the attribute claims of one permanode.  zeroTime is
\* the zero time.Time and Now a time after every claim date.
ClaimDates == 1..2
zeroTime == 0
Now == 3
Claim(ref, type, attr, value, date) ==
  [BlobRef |-> ref, Type |-> type, Attr |-> attr, Value |-> value,
   Date |-> date, Signer |-> "signer"]

\* The claims a permanode may have: on "tag" every type with the values it
\* can carry, on "title" a set-attribute.
AttrClaims ==
  { Claim("", tv[1], "tag", tv[2], d) :
      tv \in ({"set-attribute", "add-attribute", "del-attribute"} \X {"x", "y"})
             \cup { << "del-attribute", "" >> },
      d \in ClaimDates }
  \cup { Claim("", "set-attribute", "title", "x", d) : d \in ClaimDates }

\* sort.Sort(camtypes.ClaimPtrsByDate(pm.Claims)) in mergeClaimRow: the
\* Claims of a PermanodeMeta are in date order.
ClaimsByDate(cls) == \A i \in 1..Len(cls) - 1 : cls[i].Date <= cls[i + 1].Date

PermanodeClaims(S, n) ==
  { cls \in UNION { [1..k -> S] : k \in 0..n } : ClaimsByDate(cls) }

\* The del-attribute loop of AppendPermanodeAttrValuesLocked: every element
\* equal to v is taken out by copy(dst[i:], dst[i+1:]), from index i on.
RECURSIVE removeValue(_, _, _)
removeValue(dst, i, v) ==
  IF i > Len(dst) THEN dst
  ELSE IF dst[i] = v
    THEN removeValue(SubSeq(dst, 1, i - 1) \o SubSeq(dst, i + 1, Len(dst)), i, v)
    ELSE removeValue(dst, i + 1, v)

\* AppendPermanodeAttrValuesLocked without the cl.Date.After(at) test: the
\* variant C14 excludes.
RECURSIVE AppendPermanodeAttrValuesUndated(_, _, _, _, _)
AppendPermanodeAttrValuesUndated(dst, claims, attr, at, signerFilter) ==
  IF claims = << >> THEN dst
  ELSE LET cl == Head(claims)
           next == IF cl.Attr # attr
                     THEN dst
                   ELSE IF signerFilter # "" /\ signerFilter # cl.Signer
                     THEN dst
                   ELSE CASE cl.Type = "del-attribute" ->
                               IF cl.Value = "" THEN << >> ELSE removeValue(dst, 1, cl.Value)
                          [] cl.Type = "set-attribute" -> << cl.Value >>
                          [] cl.Type = "add-attribute" -> Append(dst, cl.Value)
                          [] OTHER -> dst
       IN AppendPermanodeAttrValuesUndated(next, Tail(claims), attr, at, signerFilter)

\* Corpus.AppendPermanodeAttrValuesLocked from its loop over pm.Claims on;
\* at is not the zero time.
RECURSIVE AppendPermanodeAttrValuesLoop(_, _, _, _, _)
AppendPermanodeAttrValuesLoop(dst, claims, attr, at, signerFilter) ==
  IF claims = << >> THEN dst
  ELSE LET cl == Head(claims)
           next == IF cl.Attr # attr \/ cl.Date > at
                     THEN dst
                   ELSE IF signerFilter # "" /\ signerFilter # cl.Signer
                     THEN dst
                   ELSE CASE cl.Type = "del-attribute" ->
                               IF cl.Value = "" THEN << >> ELSE removeValue(dst, 1, cl.Value)
                          [] cl.Type = "set-attribute" -> << cl.Value >>
                          [] cl.Type = "add-attribute" -> Append(dst, cl.Value)
                          [] OTHER -> dst
       IN AppendPermanodeAttrValuesLoop(next, Tail(claims), attr, at, signerFilter)

\* Corpus.AppendPermanodeAttrValuesLocked with dst empty; the permanode is
\* in c.permanodes when a claim row of it has been merged.
AppendPermanodeAttrValuesLocked(claims, attr, at, signerFilter) ==
  IF claims = << >> THEN << >>
  ELSE AppendPermanodeAttrValuesLoop(<< >>, claims, attr,
                                     IF at = zeroTime THEN Now ELSE at, signerFilter)

\* The call AppendPermanodeAttrValues(nil, P, attr, at, signerFilter).
AppendPermanodeAttrValues ==
  /\ qin.op = "AppendPermanodeAttrValues"
  /\ qout = noQuery
  /\ qout' = [op |-> qin.op,
              val |-> AppendPermanodeAttrValuesLocked(qin.claims, qin.attr, qin.at,
                                                      qin.signerFilter)]
  /\ UNCHANGED << env, store, kv, deletes, dlock, corpusOn, corpusBlobs, corpusGen,
                  pc, mode, blobOf, mm, ret, rd, rx, fails, reindexes, co, hc, cx, hub, host, sh, cm, qin,
                  en, ctxDone, me, ea >>

\* SpecAttrValues: AppendPermanodeAttrValues on a permanode with up to
\* MaxClaims claims.
InitAttrValues ==
  /\ IndexInit(Env({}, 0, FALSE), TRUE)
  /\ qin \in [op : {"AppendPermanodeAttrValues"},
              claims : PermanodeClaims(AttrClaims, MaxClaims),
              attr : {"tag", "title"},
              at : {zeroTime} \cup ClaimDates,
              signerFilter : {"", "signer", "other"}]
  /\ qout = noQuery
  /\ noEnum
NextAttrValues == AppendPermanodeAttrValues
SpecAttrValues == InitAttrValues /\ [][NextAttrValues]_vars

\* The claims that a call with these arguments applies.
Applied(claims, attr, at, signerFilter) ==
  SelectSeq(claims, LAMBDA cl :
     /\ cl.Attr = attr
     /\ cl.Date <= (IF at = zeroTime THEN Now ELSE at)
     /\ (signerFilter = "" \/ signerFilter = cl.Signer))

Has(l, v) == \E i \in 1..Len(l) : l[i] = v

\* The reduction over claims: set replaces the list by the value, add appends
\* it (when unique is set, only if absent), del with a value removes it,
\* del with the empty value clears.
RECURSIVE Reduce(_, _, _)
Reduce(l, claims, unique) ==
  IF claims = << >> THEN l
  ELSE LET cl == Head(claims)
           next == CASE cl.Type = "set-attribute" -> << cl.Value >>
                     [] cl.Type = "add-attribute" ->
                          IF unique /\ Has(l, cl.Value) THEN l ELSE Append(l, cl.Value)
                     [] cl.Type = "del-attribute" ->
                          IF cl.Value = "" THEN << >>
                          ELSE SelectSeq(l, LAMBDA v : v # cl.Value)
       IN Reduce(next, Tail(claims), unique)

\* C14 as stated: the values are the reduction in which add-attribute
\* appends the value only if it is not already present.
C14_AddAppendsUnique ==
  qout # noQuery /\ qout.op = "AppendPermanodeAttrValues" =>
     qout.val = Reduce(<< >>, Applied(qin.claims, qin.attr, qin.at, qin.signerFilter), TRUE)

\* C14 amended: AppendPermanodeAttrValues(P, A, at) is the reduction over
\* P's claims for A dated no later than at, in date order, where
\* set-attribute replaces the list by the value, add-attribute appends the
\* value whether or not it is present, del-attribute with a value removes
\* every occurrence of it and del-attribute with an empty value clears.
C14_AddAppendsAlways ==
  qout # noQuery /\ qout.op = "AppendPermanodeAttrValues" =>
     qout.val = Reduce(<< >>, Applied(qin.claims, qin.attr, qin.at, qin.signerFilter), FALSE)

\* The value x was added twice and is twice in the result, and a later
\* claim was left out by at.
C14_Witness ==
  /\ qout # noQuery /\ qout.op = "AppendPermanodeAttrValues"
  /\ qout.val = << "x", "x" >>
  /\ qin.at = 1
  /\ \E i \in 1..Len(qin.claims) : qin.claims[i].Attr = qin.attr /\ qin.claims[i].Date > qin.at

\* ----------------------------------------------------------- PermanodeModtime
\* Corpus.isDeletedLocked: "TODO: implement".
isDeletedLocked(br) == FALSE

\* Corpus.PermanodeModtimeLocked: [t, ok]; the permanode is in c.permanodes
\* when a claim row of it has been merged.
RECURSIVE PermanodeModtimeLoop(_, _)
PermanodeModtimeLoop(t, claims) ==
  IF claims = << >> THEN t
  ELSE LET cl == Head(claims)
       IN IF isDeletedLocked(cl.BlobRef)
            THEN PermanodeModtimeLoop(t, Tail(claims))
            ELSE PermanodeModtimeLoop(IF cl.Date > t THEN cl.Date ELSE t, Tail(claims))

PermanodeModtimeLocked(claims) ==
  IF claims = << >> THEN [t |-> zeroTime, ok |-> FALSE]
  ELSE LET t == PermanodeModtimeLoop(zeroTime, claims)
       IN [t |-> t, ok |-> t # zeroTime]

\* The call PermanodeModtime(P).
PermanodeModtime ==
  /\ qin.op = "PermanodeModtime"
  /\ qout = noQuery
  /\ qout' = [op |-> qin.op, val |-> PermanodeModtimeLocked(qin.claims)]
  /\ UNCHANGED << env, store, kv, deletes, dlock, corpusOn, corpusBlobs, corpusGen,
                  pc, mode, blobOf, mm, ret, rd, rx, fails, reindexes, co, hc, cx, hub, host, sh, cm, qin,
                  en, ctxDone, me, ea >>

\* The claims c1, c2, c3 of the permanode, each with a date.
RefClaims ==
  { Claim(ref, "set-attribute", "tag", "x", d) : ref \in {"c1", "c2", "c3"}, d \in ClaimDates }

DistinctRefs(cls) == \A i, j \in 1..Len(cls) : i # j => cls[i].BlobRef # cls[j].BlobRef

\* SpecModtime: PermanodeModtime on a permanode with up to MaxClaims claims,
\* some of which the index holds to be deleted (qin.deleted: the claims for
\* which Index.IsDeleted is true).
InitModtime ==
  /\ IndexInit(Env({}, 0, FALSE), TRUE)
  /\ qin \in [op : {"PermanodeModtime"},
              claims : { cls \in PermanodeClaims(RefClaims, MaxClaims) : DistinctRefs(cls) },
              deleted : SUBSET {"c1", "c2", "c3"}]
  /\ \A r \in qin.deleted : \E i \in 1..Len(qin.claims) : qin.claims[i].BlobRef = r
  /\ qout = noQuery
  /\ noEnum
NextModtime == PermanodeModtime
SpecModtime == InitModtime /\ [][NextModtime]_vars

\* The dates of the claims that are not deleted.
LiveDates == { qin.claims[i].Date : i \in { k \in 1..Len(qin.claims) :
                                             qin.claims[k].BlobRef \notin qin.deleted } }

\* C15: PermanodeModtime(P) is the greatest date of P's claims that are not
\* deleted, and ok is true only if there is such a claim.
C15_ModtimeIgnoresDeleted ==
  qout # noQuery /\ qout.op = "PermanodeModtime" =>
     /\ qout.val.ok = (LiveDates # {})
     /\ qout.val.ok => (qout.val.t \in LiveDates /\ \A d \in LiveDates : d <= qout.val.t)

\* -------------------------------------------------------- GetRecentPermanodes
\* The claims whose recpn rows the index may hold, in BlobRef order, and the
\* permanodes they modify.
RecentClaims == << "r1", "r2", "r3" >>
RecentPermanodes == {"pa", "pb"}

\* The recpn rows of the owner's keyId in key order: reverse time first,
\* then the claim's ref.
RowBefore(r1, r2) ==
  \/ r1.b < r2.b
  \/ r1.b = r2.b /\ \E i, j \in 1..Len(RecentClaims) :
                       i < j /\ RecentClaims[i] = r1.c /\ RecentClaims[j] = r2.c

RECURSIVE queryPrefix(_)
queryPrefix(rows) ==
  IF rows = {} THEN << >>
  ELSE LET first == CHOOSE r \in rows : \A o \in rows \ {r} : RowBefore(r, o)
       IN << first >> \o queryPrefix(rows \ {first})

\* The loop body without the IsDeleted test: the variant C16 excludes.
recentNextDeletedKept(st, row, isDel, before, limit) ==
  LET mTime == unreverseTimeString(row.b)
      permaRef == row.r
  IN IF st.stop THEN st
     ELSE IF permaRef \in st.seen THEN st
     ELSE IF ~(mTime < before) THEN [st EXCEPT !.seen = @ \cup {permaRef}]
     ELSE [seen |-> st.seen \cup {permaRef},
           dest |-> Append(st.dest, [Permanode |-> permaRef, LastModTime |-> mTime]),
           sent |-> st.sent + 1,
           stop |-> st.sent + 1 = limit]

\* One turn of the loop of GetRecentPermanodes on a row: st is [seen (the
\* dupSkipper), dest (what was sent), sent, stop (the loop has broken)];
\* isDel is the set of the refs for which IsDeleted is true.
recentNext(st, row, isDel, before, limit) ==
  LET mTime == unreverseTimeString(row.b)
      permaRef == row.r
  IN IF st.stop THEN st
     ELSE IF permaRef \in isDel THEN st
     ELSE IF permaRef \in st.seen THEN st
     ELSE IF ~(mTime < before) THEN [st EXCEPT !.seen = @ \cup {permaRef}]
     ELSE [seen |-> st.seen \cup {permaRef},
           dest |-> Append(st.dest, [Permanode |-> permaRef, LastModTime |-> mTime]),
           sent |-> st.sent + 1,
           stop |-> st.sent + 1 = limit]

RECURSIVE recentLoop(_, _, _, _, _)
recentLoop(st, it, isDel, before, limit) ==
  IF it = << >> THEN st
  ELSE recentLoop(recentNext(st, Head(it), isDel, before, limit), Tail(it),
                  isDel, before, limit)

\* Index.GetRecentPermanodes: what it sends to dest before closing it.
GetRecentPermanodesDest(rows, isDel, limit, before) ==
  recentLoop([seen |-> {}, dest |-> << >>, sent |-> 0, stop |-> FALSE],
             queryPrefix({ r \in rows : r.fam = "recpn" /\ r.a = KeyId }),
             isDel, IF before = zeroTime THEN Now ELSE before, limit).dest

\* The call GetRecentPermanodes(dest, owner, limit, before).
GetRecentPermanodes ==
  /\ qin.op = "GetRecentPermanodes"
  /\ qout = noQuery
  /\ qout' = [op |-> qin.op,
              val |-> GetRecentPermanodesDest(qin.rows, qin.deleted, qin.limit, qin.before)]
  /\ UNCHANGED << env, store, kv, deletes, dlock, corpusOn, corpusBlobs, corpusGen,
                  pc, mode, blobOf, mm, ret, rd, rx, fails, reindexes, co, hc, cx, hub, host, sh, cm, qin,
                  en, ctxDone, me, ea >>

\* The sets of recpn rows that the claims of RecentClaims can leave: each
\* claim, if indexed, has one row, with its date and its permanode.
RecentRowSets ==
  { { recentRow(f[c][1], c, f[c][2]) : c \in DOMAIN f } :
      f \in UNION { [S -> ClaimDates \X RecentPermanodes] :
                      S \in SUBSET { RecentClaims[i] : i \in 1..Len(RecentClaims) } } }

\* SpecRecent: GetRecentPermanodes over the recpn rows of up to three claims
\* on two permanodes, either of which may be deleted.
InitRecent ==
  /\ IndexInit(Env({}, 0, FALSE), FALSE)
  /\ qin \in [op : {"GetRecentPermanodes"},
              rows : RecentRowSets,
              deleted : SUBSET RecentPermanodes,
              limit : 0..2,
              before : {zeroTime} \cup ClaimDates]
  /\ qout = noQuery
  /\ noEnum
NextRecent == GetRecentPermanodes
SpecRecent == InitRecent /\ [][NextRecent]_vars

\* The claim times of the permanode pn in the rows of the call, and the
\* limit of the call as a time.
TimesOf(pn) == { unreverseTimeString(r.b) : r \in { x \in qin.rows : x.r = pn } }
Before == IF qin.before = zeroTime THEN Now ELSE qin.before
Latest(T) == CHOOSE t \in T : \A u \in T : u <= t

\* What is sent is a list without duplicates, most recent first, of
\* permanodes of the set E with the times given by tm, of at most limit
\* results when limit > 0, and it leaves out a permanode of E only when the
\* limit is reached, and then one that is not more recent than those sent.
SendsMostRecentOf(dest, E, tm(_)) ==
  /\ \A i \in 1..Len(dest) : dest[i].Permanode \in E
                             /\ dest[i].LastModTime = tm(dest[i].Permanode)
  /\ \A i, j \in 1..Len(dest) : i < j => /\ dest[i].Permanode # dest[j].Permanode
                                         /\ dest[i].LastModTime >= dest[j].LastModTime
  /\ qin.limit > 0 => Len(dest) <= qin.limit
  /\ \A pn \in E : (\A i \in 1..Len(dest) : dest[i].Permanode # pn) =>
        /\ qin.limit > 0 /\ Len(dest) = qin.limit
        /\ \A i \in 1..Len(dest) : dest[i].LastModTime >= tm(pn)

\* C16 as stated: every non-deleted permanode that has a claim dated before
\* `before` is sent, with the time of its most recent such claim.
C16_RecentAnyClaimBefore ==
  qout # noQuery /\ qout.op = "GetRecentPermanodes" =>
     SendsMostRecentOf(qout.val,
        { pn \in RecentPermanodes \ qin.deleted : \E t \in TimesOf(pn) : t < Before },
        LAMBDA pn : Latest({ t \in TimesOf(pn) : t < Before }))

\* C16 amended: GetRecentPermanodes sends, most recent first and each once,
\* the non-deleted permanodes of the owner whose most recent claim is dated
\* before `before`, each with the time of that claim; a permanode that has a
\* claim dated at or after `before` is not sent, whatever its earlier
\* claims; a deleted permanode is never sent, and at most `limit` results
\* are sent when limit > 0.
C16_RecentLastClaimBefore ==
  qout # noQuery /\ qout.op = "GetRecentPermanodes" =>
     SendsMostRecentOf(qout.val,
        { pn \in RecentPermanodes \ qin.deleted :
            TimesOf(pn) # {} /\ Latest(TimesOf(pn)) < Before },
        LAMBDA pn : Latest(TimesOf(pn)))

\* Of two permanodes with claims before `before`, one deleted, the other
\* modified twice, only the second was sent, once.
C16_Witness ==
  /\ qout # noQuery /\ qout.op = "GetRecentPermanodes"
  /\ qin.deleted = {"pa"} /\ TimesOf("pa") # {}
  /\ Cardinality({ x \in qin.rows : x.r = "pb" }) = 2
  /\ Len(qout.val) = 1 /\ qout.val[1].Permanode = "pb"

\* ---------------------------------------------------------------------
\* Enumerators: s3Storage.EnumerateBlobs and the Corpus.Enumerate*Locked
\* functions, each a goroutine that sends items to a channel it was given.
\* ---------------------------------------------------------------------

\* Blob refs are numbered in BlobRef order; 0 stands for "" (no ref).
MaxRef == 3
Refs == 1..MaxRef
\* An object key of the bucket that blob.Parse rejects.
BadKey == -1
ChanCaps == {0, 1}
EnumKinds == {"s3", "camliBlobs", "blobMeta", "permanodesLastModified"}

Min(a, b) == IF a < b THEN a ELSE b

RECURSIVE Ascending(_)
\* The members of a set of refs, in ascending order.
Ascending(S) ==
  IF S = {} THEN << >>
  ELSE LET m == CHOOSE x \in S : \A y \in S : x <= y
       IN << m >> \o Ascending(S \ {m})

\* The contents an enumerator can find: refs in the order it walks them,
\* and, in a bucket, possibly a key that is no blob ref.
Stocks == { Ascending(S) : S \in SUBSET Refs }
            \cup { << BadKey >> \o Ascending(S) : S \in SUBSET Refs }

RECURSIVE KeysAfter(_, _)
KeysAfter(keys, after) ==
  IF keys = << >> THEN << >>
  ELSE IF Head(keys) = BadKey \/ Head(keys) > after
       THEN << Head(keys) >> \o KeysAfter(Tail(keys), after)
       ELSE KeysAfter(Tail(keys), after)

\* s3Client.ListBucket(bucket, after, limit): at most limit keys after
\* `after`, in key order.
ListBucket(keys, after, limit) ==
  LET l == KeysAfter(keys, after)
  IN SubSeq(l, 1, Min(limit, Len(l)))

\* An enumerator about to run. The Corpus functions take no after and limit
\* and range over what the corpus holds.
Enumerator(kind, stock, after, limit, cap, mayFail) ==
  [ kind |-> kind, pc |-> IF kind = "s3" THEN "list" ELSE "loop",
    stock |-> stock, after |-> after, limit |-> limit,
    items |-> IF kind = "s3" THEN << >> ELSE stock,
    buf |-> << >>, cap |-> cap, closed |-> 0, result |-> "none",
    reading |-> TRUE, got |-> << >>, mayFail |-> mayFail ]

\* return r, with the deferred close(dest).
EnReturn(e, r) == [ e EXCEPT !.pc = "returned", !.result = r,
                             !.closed = @ + 1 ]

\* The send case of the select can proceed: the channel has room, or it is
\* unbuffered and a receiver waits.
CanSend(e) == \/ Len(e.buf) < e.cap
              \/ e.cap = 0 /\ e.reading

\* objs, err := sto.s3Client.ListBucket(...); if err != nil { return err }
EnList(i) ==
  /\ i \in DOMAIN en
  /\ en[i].pc = "list"
  /\ \/ en' = [ en EXCEPT ![i] = [ @ EXCEPT !.pc = "loop",
                  !.items = ListBucket(en[i].stock, en[i].after,
                                       en[i].limit) ] ]
     \/ /\ en[i].mayFail
        /\ en' = [ en EXCEPT ![i] = EnReturn(@, "err") ]
  /\ UNCHANGED << env, store, kv, deletes, dlock, corpusOn, corpusBlobs,
                  corpusGen, pc, mode, blobOf, mm, ret, rd, rx, fails,
                  reindexes, co, hc, cx, hub, host, sh, cm, qin, qout, ctxDone, me, ea >>

\* br, ok := blob.Parse(obj.Key); if !ok { continue }
EnSkip(i) ==
  /\ i \in DOMAIN en
  /\ en[i].pc = "loop"
  /\ en[i].items # << >>
  /\ Head(en[i].items) = BadKey
  /\ en' = [ en EXCEPT ![i] = [ @ EXCEPT !.items = Tail(@) ] ]
  /\ UNCHANGED << env, store, kv, deletes, dlock, corpusOn, corpusBlobs,
                  corpusGen, pc, mode, blobOf, mm, ret, rd, rx, fails,
                  reindexes, co, hc, cx, hub, host, sh, cm, qin, qout, ctxDone, me, ea >>

\* select { case dest <- item: ... }
EnSend(i) ==
  /\ i \in DOMAIN en
  /\ en[i].pc = "loop"
  /\ en[i].items # << >>
  /\ Head(en[i].items) # BadKey
  /\ CanSend(en[i])
  /\ en' = [ en EXCEPT ![i] =
               IF Len(@.buf) < @.cap
               THEN [ @ EXCEPT !.buf = Append(@, Head(en[i].items)),
                               !.items = Tail(@) ]
               ELSE [ @ EXCEPT !.got = Append(@, Head(en[i].items)),
                               !.items = Tail(@) ] ]
  /\ UNCHANGED << env, store, kv, deletes, dlock, corpusOn, corpusBlobs,
                  corpusGen, pc, mode, blobOf, mm, ret, rd, rx, fails,
                  reindexes, co, hc, cx, hub, host, sh, cm, qin, qout, ctxDone, me, ea >>

\* A variant of EnCanceled that returns without closing the channel.
EnCanceledUnclosed(i) ==
  /\ i \in DOMAIN en
  /\ en[i].pc = "loop"
  /\ en[i].items # << >>
  /\ Head(en[i].items) # BadKey
  /\ ctxDone
  /\ en' = [ en EXCEPT ![i] = [ @ EXCEPT !.pc = "returned",
                                         !.result = "ErrCanceled" ] ]
  /\ UNCHANGED << env, store, kv, deletes, dlock, corpusOn, corpusBlobs,
                  corpusGen, pc, mode, blobOf, mm, ret, rd, rx, fails,
                  reindexes, co, hc, cx, hub, host, sh, cm, qin, qout, ctxDone, me, ea >>

\* select { ... case <-ctx.Done(): return context.ErrCanceled }
EnCanceled(i) ==
  /\ i \in DOMAIN en
  /\ en[i].pc = "loop"
  /\ en[i].items # << >>
  /\ Head(en[i].items) # BadKey
  /\ ctxDone
  /\ en' = [ en EXCEPT ![i] = EnReturn(@, "ErrCanceled") ]
  /\ UNCHANGED << env, store, kv, deletes, dlock, corpusOn, corpusBlobs,
                  corpusGen, pc, mode, blobOf, mm, ret, rd, rx, fails,
                  reindexes, co, hc, cx, hub, host, sh, cm, qin, qout, ctxDone, me, ea >>

\* The loop is over: return nil.
EnDone(i) ==
  /\ i \in DOMAIN en
  /\ en[i].pc = "loop"
  /\ en[i].items = << >>
  /\ en' = [ en EXCEPT ![i] = EnReturn(@, "nil") ]
  /\ UNCHANGED << env, store, kv, deletes, dlock, corpusOn, corpusBlobs,
                  corpusGen, pc, mode, blobOf, mm, ret, rd, rx, fails,
                  reindexes, co, hc, cx, hub, host, sh, cm, qin, qout, ctxDone, me, ea >>

\* The context is cancelled.
Cancel ==
  /\ ~ctxDone
  /\ ctxDone' = TRUE
  /\ UNCHANGED << env, store, kv, deletes, dlock, corpusOn, corpusBlobs,
                  corpusGen, pc, mode, blobOf, mm, ret, rd, rx, fails,
                  reindexes, co, hc, cx, hub, host, sh, cm, qin, qout, en, me, ea >>

\* The caller receives a buffered item from the channel.
ChanReceive(i) ==
  /\ i \in DOMAIN en
  /\ en[i].reading
  /\ en[i].buf # << >>
  /\ en' = [ en EXCEPT ![i] = [ @ EXCEPT !.got = Append(@, Head(en[i].buf)),
                                         !.buf = Tail(@) ] ]
  /\ UNCHANGED << env, store, kv, deletes, dlock, corpusOn, corpusBlobs,
                  corpusGen, pc, mode, blobOf, mm, ret, rd, rx, fails,
                  reindexes, co, hc, cx, hub, host, sh, cm, qin, qout, ctxDone, me, ea >>

\* The caller stops receiving.
ChanAbandon(i) ==
  /\ i \in DOMAIN en
  /\ en[i].reading
  /\ en' = [ en EXCEPT ![i] = [ @ EXCEPT !.reading = FALSE ] ]
  /\ UNCHANGED << env, store, kv, deletes, dlock, corpusOn, corpusBlobs,
                  corpusGen, pc, mode, blobOf, mm, ret, rd, rx, fails,
                  reindexes, co, hc, cx, hub, host, sh, cm, qin, qout, ctxDone, me, ea >>

\* One enumerator of any of the four kinds, its channel and its caller.
InitEnum ==
  /\ IndexInit(Env({}, 0, FALSE), FALSE)
  /\ qin = noQuery
  /\ qout = noQuery
  /\ co = noCorpus
  /\ hc = noClient /\ cx = noContext /\ hub = noHub /\ host = noHost /\ sh = noSign
  /\ cm = corpusMu
  /\ ctxDone = FALSE
  /\ me = noMerge
  /\ ea = noEnumAll
  /\ \E kind \in EnumKinds, stock \in Stocks, limit \in 1..MaxRef,
        cap \in ChanCaps :
       /\ kind # "s3" => \A k \in 1..Len(stock) : stock[k] # BadKey
       /\ en = << Enumerator(kind, stock, 0, limit, cap, TRUE) >>

NextEnum ==
  \/ EnList(1)
  \/ EnSkip(1)
  \/ EnSend(1)
  \/ EnCanceled(1)
  \/ EnDone(1)
  \/ Cancel
  \/ ChanReceive(1)
  \/ ChanAbandon(1)

SpecEnum == InitEnum /\ [][NextEnum]_vars

\* The enumerator waits in its select: an item is next and the send cannot
\* proceed.
WaitingToSend(e) == /\ e.pc = "loop"
                    /\ e.items # << >>
                    /\ Head(e.items) # BadKey
                    /\ ~CanSend(e)

\* C18: every enumerator has closed its destination channel exactly once
\* when it has returned, whatever it returns, and not before; and when the
\* context is cancelled while it waits to send an item, it can return, and
\* the step it takes is the return of context.ErrCanceled with the channel
\* closed.
C18_EnumeratorClosesOnce ==
  /\ [](\A i \in DOMAIN en :
          /\ en[i].closed = (IF en[i].pc = "returned" THEN 1 ELSE 0)
          /\ (WaitingToSend(en[i]) /\ ctxDone) => ENABLED EnCanceled(i))
  /\ [][\A i \in DOMAIN en :
          (WaitingToSend(en[i]) /\ ctxDone /\ en'[i].pc # en[i].pc)
            => /\ en'[i].pc = "returned"
               /\ en'[i].result = "ErrCanceled"
               /\ en'[i].closed = 1]_vars

C18_Witness ==
  \E i \in DOMAIN en :
    /\ en[i].pc = "returned"
    /\ en[i].result = "ErrCanceled"
    /\ en[i].closed = 1
    /\ en[i].items # << >>
    /\ ~CanSend(en[i])
    /\ ctxDone

\* ---------------------------------------------------------------------
\* blobserver.MergedEnumerate over sources that are enumerators.
\* ---------------------------------------------------------------------

buffered == 8
Sources == 1..2
Afters == 0..1
Limits == 0..MaxRef

\* The state after the sources' goroutines are started: the loop is entered
\* if nSent < limit.
Merge(after, limit, destCap) ==
  [ pc |-> IF 0 < limit THEN "peek" ELSE "errs",
    after |-> after, limit |-> limit, idx |-> 1, lowest |-> 0,
    nSent |-> 0, lastSent |-> 0, draining |-> ~(0 < limit),
    dest |-> << >>, destCap |-> destCap, out |-> << >>, reading |-> TRUE,
    retErr |-> "nil", closed |-> 0, result |-> "none" ]

\* The peekers have all been looked at: break if all are closed, else send.
NextPeeker(m) ==
  IF m.idx < Len(en) THEN [ m EXCEPT !.idx = @ + 1 ]
  ELSE IF m.lowest = 0
       THEN [ m EXCEPT !.pc = "errs", !.idx = 1, !.draining = TRUE ]
       ELSE [ m EXCEPT !.pc = "send" ]

\* A variant of MePeek that does not skip the refs up to lastSent.
MePeekNoSkip ==
  /\ me.pc = "peek"
  /\ LET e == en[me.idx]
     IN \/ /\ e.buf # << >>
           /\ me' = NextPeeker([ me EXCEPT !.lowest =
                       IF @ = 0 \/ Head(e.buf) < @ THEN Head(e.buf) ELSE @ ])
           /\ en' = en
        \/ /\ e.buf = << >>
           /\ e.closed > 0
           /\ me' = NextPeeker(me)
           /\ en' = en
  /\ UNCHANGED << env, store, kv, deletes, dlock, corpusOn, corpusBlobs,
                  corpusGen, pc, mode, blobOf, mm, ret, rd, rx, fails,
                  reindexes, co, hc, cx, hub, host, sh, cm, qin, qout, ctxDone, ea >>

\* One step of the loop over the peekers: peeker.Closed() and MustPeek()
\* wait until the source has sent an item or closed its channel; an item
\* <= lastSent is taken and dropped, another is compared with lowest.
MePeek ==
  /\ me.pc = "peek"
  /\ LET e == en[me.idx]
     IN \/ /\ e.buf # << >>
           /\ Head(e.buf) <= me.lastSent
           /\ en' = [ en EXCEPT ![me.idx] = [ @ EXCEPT !.buf = Tail(@) ] ]
           /\ me' = me
        \/ /\ e.buf # << >>
           /\ ~(Head(e.buf) <= me.lastSent)
           /\ me' = NextPeeker([ me EXCEPT !.lowest =
                       IF @ = 0 \/ Head(e.buf) < @ THEN Head(e.buf) ELSE @ ])
           /\ en' = en
        \/ /\ e.buf = << >>
           /\ e.closed > 0
           /\ me' = NextPeeker(me)
           /\ en' = en
  /\ UNCHANGED << env, store, kv, deletes, dlock, corpusOn, corpusBlobs,
                  corpusGen, pc, mode, blobOf, mm, ret, rd, rx, fails,
                  reindexes, co, hc, cx, hub, host, sh, cm, qin, qout, ctxDone, ea >>

\* dest <- lowest; nSent++; lastSent = lowest.Ref.String()
MeSend ==
  /\ me.pc = "send"
  /\ \/ Len(me.dest) < me.destCap
     \/ me.destCap = 0 /\ me.reading
  /\ LET m == [ me EXCEPT !.nSent = @ + 1, !.lastSent = me.lowest,
                          !.lowest = 0, !.idx = 1,
                          !.pc = IF me.nSent + 1 < me.limit
                                 THEN "peek" ELSE "errs",
                          !.draining = ~(me.nSent + 1 < me.limit) ]
     IN me' = IF Len(me.dest) < me.destCap
              THEN [ m EXCEPT !.dest = Append(@, me.lowest) ]
              ELSE [ m EXCEPT !.out = Append(@, me.lowest) ]
  /\ UNCHANGED << env, store, kv, deletes, dlock, corpusOn, corpusBlobs,
                  corpusGen, pc, mode, blobOf, mm, ret, rd, rx, fails,
                  reindexes, co, hc, cx, hub, host, sh, cm, qin, qout, en, ctxDone, ea >>

\* go peeker.ConsumeAll(): what still comes in from source i is dropped.
MeConsumeAll(i) ==
  /\ me.pc # "off"
  /\ me.draining
  /\ i \in DOMAIN en
  /\ en[i].buf # << >>
  /\ en' = [ en EXCEPT ![i] = [ @ EXCEPT !.buf = Tail(@) ] ]
  /\ UNCHANGED << env, store, kv, deletes, dlock, corpusOn, corpusBlobs,
                  corpusGen, pc, mode, blobOf, mm, ret, rd, rx, fails,
                  reindexes, co, hc, cx, hub, host, sh, cm, qin, qout, ctxDone, me, ea >>

\* if err := <-errch; err != nil { retErr = err }, and after the last
\* source return retErr, with the deferred close(dest).
MeErr ==
  /\ me.pc = "errs"
  /\ en[me.idx].pc = "returned"
  /\ LET err == IF en[me.idx].result # "nil" THEN en[me.idx].result
                ELSE me.retErr
     IN me' = IF me.idx < Len(en)
              THEN [ me EXCEPT !.idx = @ + 1, !.retErr = err ]
              ELSE [ me EXCEPT !.pc = "returned", !.retErr = err,
                               !.result = err, !.closed = @ + 1 ]
  /\ UNCHANGED << env, store, kv, deletes, dlock, corpusOn, corpusBlobs,
                  corpusGen, pc, mode, blobOf, mm, ret, rd, rx, fails,
                  reindexes, co, hc, cx, hub, host, sh, cm, qin, qout, en, ctxDone, ea >>

\* The caller receives a buffered item from dest.
DestReceive ==
  /\ me.pc # "off"
  /\ me.reading
  /\ me.dest # << >>
  /\ me' = [ me EXCEPT !.out = Append(@, Head(me.dest)), !.dest = Tail(@) ]
  /\ UNCHANGED << env, store, kv, deletes, dlock, corpusOn, corpusBlobs,
                  corpusGen, pc, mode, blobOf, mm, ret, rd, rx, fails,
                  reindexes, co, hc, cx, hub, host, sh, cm, qin, qout, en, ctxDone, ea >>

\* The caller, having cancelled the context, stops receiving from dest.
DestAbandon ==
  /\ me.pc # "off"
  /\ me.reading
  /\ ctxDone
  /\ me' = [ me EXCEPT !.reading = FALSE ]
  /\ UNCHANGED << env, store, kv, deletes, dlock, corpusOn, corpusBlobs,
                  corpusGen, pc, mode, blobOf, mm, ret, rd, rx, fails,
                  reindexes, co, hc, cx, hub, host, sh, cm, qin, qout, en, ctxDone, ea >>

\* MergedEnumerate over two buckets, with every after and limit.
InitMerge ==
  /\ IndexInit(Env({}, 0, FALSE), FALSE)
  /\ qin = noQuery
  /\ qout = noQuery
  /\ co = noCorpus
  /\ hc = noClient /\ cx = noContext /\ hub = noHub /\ host = noHost /\ sh = noSign
  /\ cm = corpusMu
  /\ ctxDone = FALSE
  /\ ea = noEnumAll
  /\ \E s1 \in Stocks, s2 \in Stocks, after \in Afters, limit \in Limits,
        destCap \in ChanCaps :
       /\ \A k \in 1..Len(s2) : s2[k] # BadKey
       /\ en = << Enumerator("s3", s1, after, limit, buffered, TRUE),
                  Enumerator("s3", s2, after, limit, buffered, FALSE) >>
       /\ me = Merge(after, limit, destCap)

NextMerge ==
  \/ \E i \in Sources : EnList(i)
  \/ \E i \in Sources : EnSkip(i)
  \/ \E i \in Sources : EnSend(i)
  \/ \E i \in Sources : EnCanceled(i)
  \/ \E i \in Sources : EnDone(i)
  \/ Cancel
  \/ MePeek
  \/ MeSend
  \/ \E i \in Sources : MeConsumeAll(i)
  \/ MeErr
  \/ DestReceive
  \/ DestAbandon

SpecMerge == InitMerge /\ [][NextMerge]_vars

\* What has been sent to dest, received or not.
Sent == me.out \o me.dest

\* The refs of source i after `after`.
SourceRefs(i) ==
  { en[i].stock[k] : k \in 1..Len(en[i].stock) } \cap
    { r \in Refs : r > me.after }

FirstN(l, n) == SubSeq(l, 1, Min(n, Len(l)))

\* The refs source i enumerates when nothing stops it.
Enumerates(i) ==
  SelectSeq(ListBucket(en[i].stock, en[i].after, en[i].limit),
            LAMBDA k : k # BadKey)

\* Source i enumerates its refs after `after` in ascending order, up to
\* the limit.
InOrderAfter(i) == Enumerates(i) = FirstN(Ascending(SourceRefs(i)), me.limit)

StrictlyAscending(l) == \A j \in 1..Len(l) - 1 : l[j] < l[j + 1]

MergedUnion == UNION { SourceRefs(i) : i \in DOMAIN en }

MergeRuns ==
  \/ \E i \in Sources : EnList(i) \/ EnSkip(i) \/ EnSend(i) \/ EnDone(i)
  \/ \E i \in Sources : EnCanceled(i) \/ MeConsumeAll(i)
  \/ MePeek
  \/ MeSend
  \/ MeErr
  \/ DestReceive

SpecMergeFair == InitMerge /\ [][NextMerge]_vars /\ WF_vars(MergeRuns)

\* C19: once the context is cancelled, MergedEnumerate returns and closes
\* dest; it does not stay blocked forever sending to dest when the caller
\* has stopped receiving after cancelling.
C19_CancelledMergeEnds ==
  ctxDone ~> (me.pc = "returned" /\ me.closed = 1)

\* ---------------------------------------------------------------------
\* blobserver.EnumerateAll: the caller's goroutine runs src.EnumerateBlobs
\* batch by batch, a second goroutine calls fn on what arrives on ch.
\* ---------------------------------------------------------------------

batchSize == 1000
chCap == 16
\* The batch sizes of the runs: the one of the code, and two that make a
\* bucket of MaxRef refs span several batches.
BatchSizes == {1, 2, batchSize}
FnResults == {"nil", "fnErr"}

\* The goroutine of one batch, before its first receive.
fnGoroutine == [ pc |-> "range", err |-> "nil", sb |-> 0 ]

\* EnumerateAll inside src.EnumerateBlobs of the first batch.
EnumAll ==
  [ pc |-> "enum", after |-> 0, n |-> 0, mu |-> "free", err |-> "nil",
    g |-> fnGoroutine, result |-> "none", calls |-> << >>,
    waited |-> FALSE ]

\* err := src.EnumerateBlobs(ctx, ch, after, batchSize) has returned.
EaEnumReturned ==
  /\ ea.pc = "enum"
  /\ en[1].pc = "returned"
  /\ ea' = IF en[1].result # "nil"
           THEN [ ea EXCEPT !.pc = "lock", !.err = en[1].result,
                            !.waited = (ea.mu = "fn") ]
           ELSE [ ea EXCEPT !.pc = "errc" ]
  /\ UNCHANGED << env, store, kv, deletes, dlock, corpusOn, corpusBlobs,
                  corpusGen, pc, mode, blobOf, mm, ret, rd, rx, fails,
                  reindexes, co, hc, cx, hub, host, sh, cm, qin, qout, en, ctxDone, me >>

\* A variant of EaLock that returns the error without taking mu.
EaReturnUnlocked ==
  /\ ea.pc = "lock"
  /\ ea' = [ ea EXCEPT !.pc = "returned", !.result = ea.err ]
  /\ UNCHANGED << env, store, kv, deletes, dlock, corpusOn, corpusBlobs,
                  corpusGen, pc, mode, blobOf, mm, ret, rd, rx, fails,
                  reindexes, co, hc, cx, hub, host, sh, cm, qin, qout, en, ctxDone, me >>

\* mu.Lock() // make sure fn callback finished; no need to unlock
\* return err
EaLock ==
  /\ ea.pc = "lock"
  /\ ea.mu = "free"
  /\ ea' = [ ea EXCEPT !.pc = "returned", !.result = ea.err,
                       !.mu = "main" ]
  /\ UNCHANGED << env, store, kv, deletes, dlock, corpusOn, corpusBlobs,
                  corpusGen, pc, mode, blobOf, mm, ret, rd, rx, fails,
                  reindexes, co, hc, cx, hub, host, sh, cm, qin, qout, en, ctxDone, me >>

\* A variant of EaErrc whose next batch starts from the beginning again.
EaErrcFromStart ==
  /\ ea.pc = "errc"
  /\ ea.g.pc = "done"
  /\ IF ea.g.err # "nil"
     THEN /\ ea' = [ ea EXCEPT !.pc = "returned", !.result = ea.g.err ]
          /\ en' = en
     ELSE IF ea.n = 0
     THEN /\ ea' = [ ea EXCEPT !.pc = "returned", !.result = "nil" ]
          /\ en' = en
     ELSE /\ ea' = [ ea EXCEPT !.pc = "enum", !.n = 0, !.g = fnGoroutine ]
          /\ en' = << Enumerator("s3", en[1].stock, 0,
                                 en[1].limit, chCap, en[1].mayFail) >>
  /\ UNCHANGED << env, store, kv, deletes, dlock, corpusOn, corpusBlobs,
                  corpusGen, pc, mode, blobOf, mm, ret, rd, rx, fails,
                  reindexes, co, hc, cx, hub, host, sh, cm, qin, qout, ctxDone, me >>

\* if err := <-errc; err != nil { return err }; if n == 0 { return nil };
\* otherwise the next batch: a new ch, a new goroutine, EnumerateBlobs
\* after the last ref fn was called on.
EaErrc ==
  /\ ea.pc = "errc"
  /\ ea.g.pc = "done"
  /\ IF ea.g.err # "nil"
     THEN /\ ea' = [ ea EXCEPT !.pc = "returned", !.result = ea.g.err ]
          /\ en' = en
     ELSE IF ea.n = 0
     THEN /\ ea' = [ ea EXCEPT !.pc = "returned", !.result = "nil" ]
          /\ en' = en
     ELSE /\ ea' = [ ea EXCEPT !.pc = "enum", !.n = 0, !.g = fnGoroutine ]
          /\ en' = << Enumerator("s3", en[1].stock, ea.after,
                                 en[1].limit, chCap, en[1].mayFail) >>
  /\ UNCHANGED << env, store, kv, deletes, dlock, corpusOn, corpusBlobs,
                  corpusGen, pc, mode, blobOf, mm, ret, rd, rx, fails,
                  reindexes, co, hc, cx, hub, host, sh, cm, qin, qout, ctxDone, me >>

\* A variant of FnReceive that goes on to fn whatever err is.
FnReceiveNoSkip ==
  /\ ea.pc # "off"
  /\ ea.g.pc = "range"
  /\ en[1].buf # << >>
  /\ en' = [ en EXCEPT ![1] = [ @ EXCEPT !.buf = Tail(@) ] ]
  /\ ea' = [ ea EXCEPT !.g = [ @ EXCEPT !.pc = "locking",
                                        !.sb = Head(en[1].buf) ] ]
  /\ UNCHANGED << env, store, kv, deletes, dlock, corpusOn, corpusBlobs,
                  corpusGen, pc, mode, blobOf, mm, ret, rd, rx, fails,
                  reindexes, co, hc, cx, hub, host, sh, cm, qin, qout, ctxDone, me >>

\* for sb := range ch { if err != nil { continue } ...
FnReceive ==
  /\ ea.pc # "off"
  /\ ea.g.pc = "range"
  /\ en[1].buf # << >>
  /\ en' = [ en EXCEPT ![1] = [ @ EXCEPT !.buf = Tail(@) ] ]
  /\ ea' = IF ea.g.err # "nil" THEN ea
           ELSE [ ea EXCEPT !.g = [ @ EXCEPT !.pc = "locking",
                                             !.sb = Head(en[1].buf) ] ]
  /\ UNCHANGED << env, store, kv, deletes, dlock, corpusOn, corpusBlobs,
                  corpusGen, pc, mode, blobOf, mm, ret, rd, rx, fails,
                  reindexes, co, hc, cx, hub, host, sh, cm, qin, qout, ctxDone, me >>

\* mu.Lock(), and fn(sb) begins.
FnLock ==
  /\ ea.pc # "off"
  /\ ea.g.pc = "locking"
  /\ ea.mu = "free"
  /\ ea' = [ ea EXCEPT !.mu = "fn", !.g = [ @ EXCEPT !.pc = "fn" ],
                       !.calls = Append(@, ea.g.sb) ]
  /\ UNCHANGED << env, store, kv, deletes, dlock, corpusOn, corpusBlobs,
                  corpusGen, pc, mode, blobOf, mm, ret, rd, rx, fails,
                  reindexes, co, hc, cx, hub, host, sh, cm, qin, qout, en, ctxDone, me >>

\* fn(sb) returns; mu.Unlock(); after = sb.Ref.String(); n++
FnReturn ==
  /\ ea.pc # "off"
  /\ ea.g.pc = "fn"
  /\ \E e \in FnResults :
       ea' = [ ea EXCEPT !.mu = "free", !.after = ea.g.sb, !.n = @ + 1,
                         !.g = [ @ EXCEPT !.pc = "range", !.err = e ] ]
  /\ UNCHANGED << env, store, kv, deletes, dlock, corpusOn, corpusBlobs,
                  corpusGen, pc, mode, blobOf, mm, ret, rd, rx, fails,
                  reindexes, co, hc, cx, hub, host, sh, cm, qin, qout, en, ctxDone, me >>

\* ch is closed and drained: errc <- err
FnDone ==
  /\ ea.pc # "off"
  /\ ea.g.pc = "range"
  /\ en[1].buf = << >>
  /\ en[1].closed > 0
  /\ ea' = [ ea EXCEPT !.g = [ @ EXCEPT !.pc = "done" ] ]
  /\ UNCHANGED << env, store, kv, deletes, dlock, corpusOn, corpusBlobs,
                  corpusGen, pc, mode, blobOf, mm, ret, rd, rx, fails,
                  reindexes, co, hc, cx, hub, host, sh, cm, qin, qout, en, ctxDone, me >>

\* EnumerateAll over a bucket with every content, with an fn that may fail.
InitEnumAll ==
  /\ IndexInit(Env({}, 0, FALSE), FALSE)
  /\ qin = noQuery
  /\ qout = noQuery
  /\ co = noCorpus
  /\ hc = noClient /\ cx = noContext /\ hub = noHub /\ host = noHost /\ sh = noSign
  /\ cm = corpusMu
  /\ ctxDone = FALSE
  /\ me = noMerge
  /\ ea = EnumAll
  /\ \E stock \in Stocks, size \in BatchSizes :
       en = << Enumerator("s3", stock, 0, size, chCap, TRUE) >>

NextEnumAll ==
  \/ EnList(1)
  \/ EnSkip(1)
  \/ EnSend(1)
  \/ EnCanceled(1)
  \/ EnDone(1)
  \/ Cancel
  \/ EaEnumReturned
  \/ EaLock
  \/ EaErrc
  \/ FnReceive
  \/ FnLock
  \/ FnReturn
  \/ FnDone

SpecEnumAll == InitEnumAll /\ [][NextEnumAll]_vars

\* C20: whenever EnumerateAll has returned, by whichever return, no call
\* of fn is executing; that includes the return of an error of
\* src.EnumerateBlobs that came back while fn was running on an earlier
\* item.
C20_NoReturnDuringFn ==
  (ea.pc = "returned") => (ea.g.pc # "fn" /\ ea.mu # "fn")

C20_Witness ==
  /\ ea.pc = "returned"
  /\ ea.result = "ErrCanceled"
  /\ ea.waited
  /\ Len(ea.calls) >= 1
  /\ ea.mu = "main"

\* C21: once fn has returned an error, no step calls fn again or asks the
\* source for another batch, and a return of EnumerateAll returns a
\* non-nil error.
C21_FnErrorStops ==
  [][ea.pc # "off" /\ ea.g.err # "nil" =>
        /\ ea'.calls = ea.calls
        /\ ea'.g.pc # "fn"
        /\ en'[1].pc = "list" => en[1].pc = "list"
        /\ ea'.pc = "returned" => ea'.result # "nil"]_vars

C21_Witness ==
  /\ ea.pc = "returned"
  /\ ea.g.err = "fnErr"
  /\ ea.result = "fnErr"
  /\ ea.calls = << 1 >>
  /\ en[1].stock = << 1, 2, 3 >>

\* The goroutines of EnumerateAll run when they can, and fn returns;
\* cancelling is the caller's choice.
EnumAllRuns ==
  \/ EnList(1) \/ EnSkip(1) \/ EnSend(1) \/ EnCanceled(1) \/ EnDone(1)
  \/ EaEnumReturned \/ EaLock \/ EaErrc
  \/ FnReceive \/ FnLock \/ FnReturn \/ FnDone

SpecEnumAllFair ==
  InitEnumAll /\ [][NextEnumAll]_vars /\ WF_vars(EnumAllRuns)

\* The refs of the bucket source 1 enumerates.
BucketRefs == { en[1].stock[k] : k \in 1..Len(en[1].stock) } \cap Refs

\* The source holds blobs only, and neither it nor fn has returned an
\* error.
CleanRun ==
  /\ ea.pc # "off"
  /\ \A k \in 1..Len(en[1].stock) : en[1].stock[k] # BadKey
  /\ ea.err = "nil"
  /\ ea.g.err = "nil"

CorpusClaim(ref, pn, signer, date) ==
  [ BlobRef |-> ref, Permanode |-> pn, Signer |-> signer, Date |-> date ]

\* The claim| rows there can be, in key order: claim|permanode|signer|
\* date|claimref.
CorpusClaimRows ==
  << CorpusClaim("c1", "pa", "k1", 1), CorpusClaim("c2", "pa", "k1", 2),
     CorpusClaim("c3", "pa", "k2", 1), CorpusClaim("c4", "pa", "k2", 2),
     CorpusClaim("c5", "pb", "k1", 2), CorpusClaim("c6", "pb", "k2", 1) >>

CorpusClaims == { CorpusClaimRows[i] : i \in DOMAIN CorpusClaimRows }
CorpusPermanodes == {"pa", "pb"}

\* newCorpus(), with the claim rows that the index holds.
newCorpus(S) ==
  [ pc |-> "new", building |-> FALSE,
    rows |-> SelectSeq(CorpusClaimRows, LAMBDA c : c \in S),
    blobs |-> {}, claims |-> [ pn \in CorpusPermanodes |-> << >> ],
    last |-> "" ]

\* The results sort.Sort(camtypes.ClaimPtrsByDate(l)) can give: sort.Sort
\* is not stable, claims of one date come out in any order.
SortByDate(l) ==
  { q \in [ 1..Len(l) -> { l[i] : i \in 1..Len(l) } ] :
      /\ { q[i] : i \in 1..Len(l) } = { l[i] : i \in 1..Len(l) }
      /\ ClaimsByDate(q) }

\* A variant of mergeClaimRow that never sorts.
mergeClaimRowUnsorted(c, claim) ==
  { [ c.claims EXCEPT ![claim.Permanode] = Append(@, claim) ] }

\* Corpus.mergeClaimRow: the values c.permanodes can have after it.
mergeClaimRow(c, claim) ==
  LET l == Append(c.claims[claim.Permanode], claim)
  IN IF ~c.building
     THEN { [ c.claims EXCEPT ![claim.Permanode] = q ] : q \in SortByDate(l) }
     ELSE { [ c.claims EXCEPT ![claim.Permanode] = l ] }

\* scanFromStorage: c.building = true, and the meta: rows are scanned.
ScanBegin ==
  /\ co.pc = "new"
  /\ co' = [ co EXCEPT !.pc = "scan", !.building = TRUE,
                       !.blobs = { co.rows[i].BlobRef : i \in DOMAIN co.rows } ]
  /\ UNCHANGED << indexVars, qin, qout, en, ctxDone, me, ea, hc, cx, hub, host, sh, cm >>

\* scanPrefix("claim|"): the next row goes to mergeClaimRow.
ScanRow ==
  /\ co.pc = "scan"
  /\ co.rows # << >>
  /\ \E m \in mergeClaimRow(co, Head(co.rows)) :
       co' = [ co EXCEPT !.claims = m, !.rows = Tail(@) ]
  /\ UNCHANGED << indexVars, qin, qout, en, ctxDone, me, ea, hc, cx, hub, host, sh, cm >>

\* A scanPrefix returns an error: scanFromStorage returns it, and
\* KeepInMemory keeps the corpus.
ScanFail ==
  /\ co.pc = "scan"
  /\ co' = [ co EXCEPT !.pc = "failed" ]
  /\ UNCHANGED << indexVars, qin, qout, en, ctxDone, me, ea, hc, cx, hub, host, sh, cm >>

\* The scans are over: every pm.Claims is sorted, c.building = false.
ScanEnd ==
  /\ co.pc = "scan"
  /\ co.rows = << >>
  /\ \E f \in [ CorpusPermanodes ->
                  UNION { SortByDate(co.claims[pn]) : pn \in CorpusPermanodes } ] :
       /\ \A pn \in CorpusPermanodes : f[pn] \in SortByDate(co.claims[pn])
       /\ co' = [ co EXCEPT !.pc = "ready", !.building = FALSE, !.claims = f ]
  /\ UNCHANGED << indexVars, qin, qout, en, ctxDone, me, ea, hc, cx, hub, host, sh, cm >>

\* Corpus.addBlob of a claim blob with its claim| row: nothing if the blob
\* is known, else mergeClaimRow.
CorpusAddBlob ==
  /\ co.pc \in {"ready", "failed"}
  /\ \E claim \in CorpusClaims :
       IF claim.BlobRef \in co.blobs
       THEN co' = [ co EXCEPT !.last = claim.BlobRef ]
       ELSE \E m \in mergeClaimRow(co, claim) :
              co' = [ co EXCEPT !.claims = m, !.last = claim.BlobRef,
                                !.blobs = @ \cup { claim.BlobRef } ]
  /\ UNCHANGED << indexVars, qin, qout, en, ctxDone, me, ea, hc, cx, hub, host, sh, cm >>

InitCorpus ==
  /\ IndexInit(Env({}, 0, FALSE), FALSE)
  /\ qin = noQuery
  /\ qout = noQuery
  /\ en = << >>
  /\ ctxDone = FALSE
  /\ me = noMerge
  /\ ea = noEnumAll
  /\ hc = noClient /\ cx = noContext /\ hub = noHub /\ host = noHost /\ sh = noSign
  /\ cm = corpusMu
  /\ \E S \in SUBSET CorpusClaims : co = newCorpus(S)

NextCorpus ==
  \/ ScanBegin
  \/ ScanRow
  \/ ScanFail
  \/ ScanEnd
  \/ CorpusAddBlob

SpecCorpus == InitCorpus /\ [][NextCorpus]_vars

\* C23: whenever the corpus is not being built (c.building is false),
\* every permanode's claim list is in claim date order: after
\* scanFromStorage has completed and after every addBlob.
C23_ClaimsSortedAfterBuild ==
  (co.pc # "off" /\ ~co.building) =>
    \A pn \in CorpusPermanodes : ClaimsByDate(co.claims[pn])

\* After a build that appended pa's claims out of date order, addBlob has
\* added a claim older than one already there.
C23_Witness ==
  /\ co.pc = "ready"
  /\ co.last = "c3"
  /\ { co.claims["pa"][i].BlobRef : i \in 1..Len(co.claims["pa"]) }
       = {"c1", "c2", "c3", "c4"}
  /\ co.claims["pb"] = << CorpusClaimRows[6], CorpusClaimRows[5] >>

\* ---------------------------------------------------------------------
\* Corpus.addBlob in steps, under Corpus.mu, next to queries that hold the
\* read lock.
\* ---------------------------------------------------------------------

\* slurpedKeyType: the key types the corpus keeps.
slurpedKeyType(fam) ==
  fam \in {"meta", "signerkeyid", "claim", "fileinfo", "filetimes",
           "imagesize", "wholetofile", "exifgps", "mediatag"}

\* A variant of addBlobLock that does not wait for the readers.
addBlobLockDespiteReaders(p) ==
  /\ pc[p] = "addblob"
  /\ cm.w = 0
  /\ IF blobOf[p] \in DOMAIN corpusBlobs
       THEN /\ cm' = [ cm EXCEPT !.w = p, !.todo = {} ]
            /\ corpusGen' = corpusGen
       ELSE /\ cm' = [ cm EXCEPT !.w = p,
                         !.todo = { row \in mm[p].kv : slurpedKeyType(row.fam) },
                         !.fed = (blobOf[p] :> mm[p].kv) @@ @ ]
            /\ corpusGen' = corpusGen + 1
  /\ pc' = [pc EXCEPT ![p] = "merging"]
  /\ ret' = noReturn
  /\ UNCHANGED << env, store, kv, deletes, dlock, corpusOn, corpusBlobs,
                  mode, blobOf, mm, rd, rx, fails, reindexes,
                  qin, qout, en, ctxDone, me, ea, co, hc, cx, hub, host, sh >>

\* c.mu.Lock(); if _, dup := c.blobs[br]; dup { return nil }; c.gen++
addBlobLock(p) ==
  /\ pc[p] = "addblob"
  /\ cm.w = 0
  /\ cm.r = 0
  /\ IF blobOf[p] \in DOMAIN corpusBlobs
       THEN /\ cm' = [ cm EXCEPT !.w = p, !.todo = {} ]
            /\ corpusGen' = corpusGen
       ELSE /\ cm' = [ cm EXCEPT !.w = p,
                         !.todo = { row \in mm[p].kv : slurpedKeyType(row.fam) },
                         !.fed = (blobOf[p] :> mm[p].kv) @@ @ ]
            /\ corpusGen' = corpusGen + 1
  /\ pc' = [pc EXCEPT ![p] = "merging"]
  /\ ret' = noReturn
  /\ UNCHANGED << env, store, kv, deletes, dlock, corpusOn, corpusBlobs,
                  mode, blobOf, mm, rd, rx, fails, reindexes,
                  qin, qout, en, ctxDone, me, ea, co, hc, cx, hub, host, sh >>

\* for k, v := range mm.kv { ... corpusMergeFunc[kt](c, k, v) }: one row,
\* in the order the map gives.
addBlobMerge(p) ==
  /\ pc[p] = "merging"
  /\ \E row \in cm.todo :
       /\ cm' = [ cm EXCEPT !.todo = @ \ { row },
                    !.rows = IF row.fam = "meta" THEN @ ELSE @ \cup { row } ]
       /\ corpusBlobs' = IF row.fam = "meta"
                         THEN mergeMetaRows(corpusBlobs, { row })
                         ELSE corpusBlobs
  /\ ret' = noReturn
  /\ UNCHANGED << env, store, kv, deletes, dlock, corpusOn, corpusGen, pc,
                  mode, blobOf, mm, rd, rx, fails, reindexes,
                  qin, qout, en, ctxDone, me, ea, co, hc, cx, hub, host, sh >>

\* return nil, with the deferred c.mu.Unlock(); ReceiveBlob returns.
addBlobUnlock(p) ==
  /\ pc[p] = "merging"
  /\ cm.todo = {}
  /\ cm' = [ cm EXCEPT !.w = 0 ]
  /\ Return(p, "ok")
  /\ UNCHANGED << env, store, kv, deletes, dlock, corpusOn, corpusBlobs,
                  corpusGen, mode, rd, fails, reindexes,
                  qin, qout, en, ctxDone, me, ea, co, hc, cx, hub, host, sh >>

\* Corpus.RLock by a query.
CorpusRLock ==
  /\ cm.w = 0
  /\ cm.r = 0
  /\ cm' = [ cm EXCEPT !.r = 1 ]
  /\ ret' = noReturn
  /\ UNCHANGED << env, store, kv, deletes, dlock, corpusOn, corpusBlobs,
                  corpusGen, pc, mode, blobOf, mm, rd, rx, fails, reindexes,
                  qin, qout, en, ctxDone, me, ea, co, hc, cx, hub, host, sh >>

\* Corpus.RUnlock.
CorpusRUnlock ==
  /\ cm.r > 0
  /\ cm' = [ cm EXCEPT !.r = @ - 1 ]
  /\ ret' = noReturn
  /\ UNCHANGED << env, store, kv, deletes, dlock, corpusOn, corpusBlobs,
                  corpusGen, pc, mode, blobOf, mm, rd, rx, fails, reindexes,
                  qin, qout, en, ctxDone, me, ea, co, hc, cx, hub, host, sh >>

CorpusFeed ==
  \/ \E p \in Procs : addBlobLock(p)
  \/ \E p \in Procs : addBlobMerge(p)
  \/ \E p \in Procs : addBlobUnlock(p)
  \/ CorpusRLock
  \/ CorpusRUnlock

\* SpecFeed: two clients upload to an index with a corpus and a backend
\* whose CommitBatch may fail, while a query takes the corpus read lock.
InitFeed == InitIndex(Env({"p", "f", "o"}, 2, TRUE), TRUE)
NextFeed == Ingest \/ Faults \/ CorpusFeed
SpecFeed == InitFeed /\ [][NextFeed]_vars

\* What the corpus holds of blob b.
Merged(b) ==
  (IF b \in DOMAIN corpusBlobs THEN { metaRow(b) } ELSE {}) \cup RowsOf(cm.rows, b)

DeletersOf(m, x) == { m[x][i].deleter : i \in 1..Len(m[x]) }

RECURSIVE DeleteChainOf(_, _, _)
\* S and what deletes a member of S, over chains of up to n claims.
DeleteChainOf(m, S, n) ==
  IF n = 0 THEN S
  ELSE DeleteChainOf(m, S \cup UNION { DeletersOf(m, x) : x \in S }, n - 1)

\* The claims isDeleted(x) can recurse into.
AncestorsOf(m, x) == DeleteChainOf(m, DeletersOf(m, x), Cardinality(Blobs))

\* C25: in every state of the deletes cache reached by ingesting blobs, no
\* blob is among the claims its own isDeleted recursion visits, and every
\* entry of the cache is a claim filed under the ref it targets, which is
\* another blob: the recursion of isDeleted terminates.
C25_DeleteGraphAcyclic ==
  \A x \in Blobs \cup {""} :
    /\ x \notin AncestorsOf(deletes, x)
    /\ \A d \in DeletersOf(deletes, x) : BlobTable[d].target = x /\ d # x

\* The cache holds the chain d3 deletes d2 deletes d1 deletes p.
C25_Witness ==
  /\ "d1" \in DeletersOf(deletes, "p")
  /\ "d2" \in DeletersOf(deletes, "d1")
  /\ "d3" \in DeletersOf(deletes, "d2")
  /\ AncestorsOf(deletes, "p") = {"d1", "d2", "d3"}

\* ---------------------------------------------------------------------
\* The deletes cache under delete claims of any date, received in any
\* order, and rebuilt from the deleted| rows.
\* ---------------------------------------------------------------------

DeleteTargets == {"p", "o"}
DeleteClaims == {"d1", "d2", "d3"}
DeleteDates == 1..3

\* Index.updateDeletesCache for a delete claim `deleter` of `target` dated
\* `when`.
updateDeletesCacheEntry(m, target, deleter, when) ==
  [ m EXCEPT ![target] =
      sortReverseByDeletionDate(Append(m[target], deletion(deleter, when))) ]

\* A delete claim is committed: its deleted| row, and updateDeletesCache.
DeleteCommitted ==
  /\ \E target \in DeleteTargets, deleter \in DeleteClaims,
        when \in DeleteDates :
       /\ \A row \in kv : ~(row.fam = "deleted" /\ row.c = deleter)
       /\ kv' = kv \cup { deletedRow(target, when, deleter) }
       /\ deletes' = updateDeletesCacheEntry(deletes, target, deleter, when)
  /\ UNCHANGED << env, store, dlock, corpusOn, corpusBlobs, corpusGen, pc,
                  mode, blobOf, mm, ret, rd, rx, fails, reindexes, others >>

\* The index is opened again: New calls initDeletesCache.
DeletesCacheInit ==
  /\ deletes' = initDeletesCache(kv)
  /\ UNCHANGED << env, store, kv, dlock, corpusOn, corpusBlobs, corpusGen,
                  pc, mode, blobOf, mm, ret, rd, rx, fails, reindexes,
                  others >>

InitDeletes == InitIndex(Env({}, 0, FALSE), FALSE)
NextDeletes == DeleteCommitted \/ DeletesCacheInit
SpecDeletes == InitDeletes /\ [][NextDeletes]_vars

\* C26: the list of every target of the deletes cache is in descending
\* order of date, after every updateDeletesCache and after
\* initDeletesCache.
C26_DeletionsNewestFirst ==
  \A t \in DOMAIN deletes :
    \A i \in 1..Len(deletes[t]) - 1 :
      deletes[t][i].when >= deletes[t][i + 1].when

\* p has three deletions of three dates, the claim received last being
\* neither the newest nor the oldest.
C26_Witness ==
  /\ Len(deletes["p"]) = 3
  /\ deletes["p"][1] = deletion("d1", 3)
  /\ deletes["p"][2] = deletion("d3", 2)
  /\ deletes["p"][3] = deletion("d2", 1)

\* ------------------------------------------------------------ pnCamliContent
\* blob.Ref values: the zero Ref, and the strings blob.Parse accepts.
zeroRef == ""
ContentRefs == {"f1", "f2"}

\* blob.ParseOrZero: the Ref of a string that parses, the zero Ref of any
\* other string.
ParseOrZero(str) == IF str \in ContentRefs THEN str ELSE zeroRef

\* The claims a permanode may have on camliContent, with values that parse
\* and one that does not, and a claim on another attribute.
ContentClaims ==
  { Claim("", tv[1], "camliContent", tv[2], d) :
      tv \in ({"set-attribute"} \X {"f1", "f2", "junk"})
             \cup ({"del-attribute"} \X {"", "f2"})
             \cup { << "add-attribute", "f2" >> },
      d \in ClaimDates }
  \cup { Claim("", "set-attribute", "tag", "f1", d) : d \in ClaimDates }

\* A variant of the loop of pnCamliContentLocked that keeps the first
\* content it was given.
RECURSIVE pnCamliContentKeepsFirst(_, _, _)
pnCamliContentKeepsFirst(cc, t, claims) ==
  IF claims = << >> THEN [cc |-> cc, t |-> t, ok |-> cc # zeroRef]
  ELSE LET cl == Head(claims)
       IN IF cl.Attr # "camliContent"
            THEN pnCamliContentKeepsFirst(cc, t, Tail(claims))
          ELSE CASE cl.Type = "del-attribute" ->
                      pnCamliContentKeepsFirst(zeroRef, zeroTime, Tail(claims))
                 [] cl.Type = "set-attribute" /\ cc = zeroRef ->
                      pnCamliContentKeepsFirst(ParseOrZero(cl.Value), cl.Date,
                                               Tail(claims))
                 [] OTHER -> pnCamliContentKeepsFirst(cc, t, Tail(claims))

\* The loop of Corpus.pnCamliContentLocked over pm.Claims and its return:
\* [cc, t, ok] with ok = cc.Valid().
RECURSIVE pnCamliContentLoop(_, _, _)
pnCamliContentLoop(cc, t, claims) ==
  IF claims = << >> THEN [cc |-> cc, t |-> t, ok |-> cc # zeroRef]
  ELSE LET cl == Head(claims)
       IN IF cl.Attr # "camliContent"
            THEN pnCamliContentLoop(cc, t, Tail(claims))
          ELSE CASE cl.Type = "del-attribute" ->
                      pnCamliContentLoop(zeroRef, zeroTime, Tail(claims))
                 [] cl.Type = "set-attribute" ->
                      pnCamliContentLoop(ParseOrZero(cl.Value), cl.Date, Tail(claims))
                 [] OTHER -> pnCamliContentLoop(cc, t, Tail(claims))

\* Corpus.pnCamliContentLocked; the permanode is in c.permanodes when a
\* claim row of it has been merged.
pnCamliContentLocked(claims) ==
  IF claims = << >> THEN [cc |-> zeroRef, t |-> zeroTime, ok |-> FALSE]
  ELSE pnCamliContentLoop(zeroRef, zeroTime, claims)

\* The call pnCamliContentLocked(P).
pnCamliContent ==
  /\ qin.op = "pnCamliContent"
  /\ qout = noQuery
  /\ qout' = [op |-> qin.op, val |-> pnCamliContentLocked(qin.claims)]
  /\ UNCHANGED << env, store, kv, deletes, dlock, corpusOn, corpusBlobs, corpusGen,
                  pc, mode, blobOf, mm, ret, rd, rx, fails, reindexes, co, hc, cx, hub, host, sh, cm, qin,
                  en, ctxDone, me, ea >>

\* SpecContent: pnCamliContent on a permanode with up to MaxClaims claims.
InitContent ==
  /\ IndexInit(Env({}, 0, FALSE), TRUE)
  /\ qin \in [op : {"pnCamliContent"},
              claims : PermanodeClaims(ContentClaims, MaxClaims)]
  /\ qout = noQuery
  /\ noEnum
NextContent == pnCamliContent
SpecContent == InitContent /\ [][NextContent]_vars

\* The positions in the claims of P of the camliContent claims of the
\* given types.
ContentAt(types) ==
  { i \in 1..Len(qin.claims) :
      qin.claims[i].Attr = "camliContent" /\ qin.claims[i].Type \in types }

Last(S) == CHOOSE i \in S : \A j \in S : j <= i

\* C27 as stated: when P has camliContent set-attribute claims, all with
\* values that parse as blob refs, the result is the value and the date of
\* one of the latest date.
C27_LatestSetClaim ==
  (qout # noQuery /\ qout.op = "pnCamliContent"
     /\ ContentAt({"set-attribute"}) # {}
     /\ \A j \in ContentAt({"set-attribute"}) :
           qin.claims[j].Value \in ContentRefs) =>
     \E i \in ContentAt({"set-attribute"}) :
        /\ \A j \in ContentAt({"set-attribute"}) :
              qin.claims[j].Date <= qin.claims[i].Date
        /\ qout.val.cc = qin.claims[i].Value
        /\ qout.val.t = qin.claims[i].Date

\* C27 amended: pnCamliContent(P) is decided by the last of P's
\* camliContent claims of type set-attribute or del-attribute, which no
\* other of them is dated after: if it is a set-attribute claim whose value
\* parses as a blob ref, the result is that value and the claim's date; if
\* it is a del-attribute claim, whatever its value, or its value does not
\* parse, or there is no such claim, there is no content (ok is false).
C27_LastSetOrDelClaim ==
  (qout # noQuery /\ qout.op = "pnCamliContent") =>
     LET S == ContentAt({"set-attribute", "del-attribute"})
     IN IF S = {} THEN qout.val = [cc |-> zeroRef, t |-> zeroTime, ok |-> FALSE]
        ELSE LET cl == qin.claims[Last(S)]
             IN /\ \A j \in S : qin.claims[j].Date <= cl.Date
                /\ IF cl.Type = "set-attribute"
                     THEN IF cl.Value \in ContentRefs
                            THEN qout.val = [cc |-> cl.Value, t |-> cl.Date, ok |-> TRUE]
                            ELSE ~qout.val.ok
                     ELSE qout.val = [cc |-> zeroRef, t |-> zeroTime, ok |-> FALSE]

\* The content was set, deleted and set again at a later date.
C27_Witness ==
  /\ qout # noQuery /\ qout.op = "pnCamliContent"
  /\ Len(qin.claims) = 3
  /\ qin.claims[1] = Claim("", "set-attribute", "camliContent", "f1", 1)
  /\ qin.claims[2].Type = "del-attribute" /\ qin.claims[2].Attr = "camliContent"
  /\ qin.claims[3] = Claim("", "set-attribute", "camliContent", "f2", 2)
  /\ qout.val = [cc |-> "f2", t |-> 2, ok |-> TRUE]

\* ---------------------------------------------------------------------------
\* The index queries that stream to a channel
\* ---------------------------------------------------------------------------
MaxRows == 3        \* rows under the prefix the query iterates

StreamMethods == {"GetRecentPermanodes", "SearchPermanodesWithAttr", "GetDirMembers"}

\* What the loop makes of a row: "send" is a row it sends a result for,
\* "skip" one it passes over (a key with the wrong number of parts, a ref
\* that does not parse, a deleted or an already seen permanode), "bogus" a
\* keyStaticDirChild key that does not have three parts.
RowKinds == {"send", "skip", "bogus"}
StreamRows == UNION { [1..n -> RowKinds] : n \in 0..MaxRows }

\* The request: the method, FuzzyMatch and Attribute of a
\* PermanodeByAttrRequest, what KeyId returns, the rows, the limit
\* (MaxResults), and whether it.Close fails.
StreamRequests ==
  { q \in [op : {"stream"}, method : StreamMethods, fuzzy : BOOLEAN,
           attr : {"", "tag"}, keyId : {"ok", "ErrNotFound", "err"},
           rows : StreamRows, limit : 0..2, closeErr : BOOLEAN] :
      /\ q.method # "SearchPermanodesWithAttr" => (~q.fuzzy /\ q.attr = "tag")
      /\ q.method = "GetDirMembers" => q.keyId = "ok"
      /\ q.method # "GetDirMembers" =>
            \A i \in 1..Len(q.rows) : q.rows[i] # "bogus" }

\* The frame of the call: dest as the sequence of values sent, closed the
\* number of times close(dest) ran, defers the deferred calls (last in,
\* first out), it the position of the iterator and err the named result.
streamFrame(defers) ==
  [op |-> "stream", pc |-> "checks", dest |-> << >>, closed |-> 0,
   defers |-> defers, it |-> 0, itClosed |-> 0, sent |-> 0, err |-> "nil"]

Streaming == qout # noQuery /\ qout.op = "stream"

\* A return statement: the result is set and the deferred calls run.
StreamReturn(f, e) == [f EXCEPT !.pc = "defers", !.err = e]

\* x.queryPrefix(...) and defer closeIterator(it, &err).
StreamQueryPrefix(f) ==
  [f EXCEPT !.pc = "next", !.defers = Append(f.defers, "closeIterator")]

streamUnchanged ==
  UNCHANGED << env, store, kv, deletes, dlock, corpusOn, corpusBlobs, corpusGen,
               pc, mode, blobOf, mm, ret, rd, rx, fails, reindexes, co, hc, cx, hub, host, sh, cm, qin,
               en, ctxDone, me, ea >>

\* A variant of the entry of the methods that does not defer close(dest).
StreamCallNoDefer ==
  /\ qin.op = "stream"
  /\ qout = noQuery
  /\ qout' = streamFrame(<< >>)
  /\ streamUnchanged

\* The entry of the three methods: defer close(dest).
StreamCall ==
  /\ qin.op = "stream"
  /\ qout = noQuery
  /\ qout' = streamFrame(<< "close(dest)" >>)
  /\ streamUnchanged

\* From the entry to the loop: the checks of the request in
\* SearchPermanodesWithAttr, x.KeyId in it and in GetRecentPermanodes, then
\* queryPrefix.
StreamChecks ==
  /\ Streaming /\ qout.pc = "checks"
  /\ qout' =
       IF qin.method = "SearchPermanodesWithAttr" /\ qin.fuzzy
         THEN StreamReturn(qout, "FuzzyMatch")
       ELSE IF qin.method = "SearchPermanodesWithAttr" /\ qin.attr = ""
         THEN StreamReturn(qout, "missing Attribute")
       ELSE IF qin.method = "GetDirMembers" THEN StreamQueryPrefix(qout)
       ELSE CASE qin.keyId = "ErrNotFound" -> StreamReturn(qout, "nil")
              [] qin.keyId = "err" -> StreamReturn(qout, "err")
              [] OTHER -> StreamQueryPrefix(qout)
  /\ streamUnchanged

\* it.Next() and the body of the loop up to the send.
StreamNext ==
  /\ Streaming /\ qout.pc = "next"
  /\ qout' =
       IF qout.it = Len(qin.rows) THEN StreamReturn(qout, "nil")
       ELSE LET row == qin.rows[qout.it + 1]
                f == [qout EXCEPT !.it = qout.it + 1]
            IN CASE row = "skip" -> f
                 [] row = "bogus" -> StreamReturn(f, "bogus key")
                 [] OTHER -> [f EXCEPT !.pc = "send"]
  /\ streamUnchanged

\* dest <- result, received by the caller, and the test of the limit.
StreamSend ==
  /\ Streaming /\ qout.pc = "send"
  /\ LET f == [qout EXCEPT !.dest = Append(qout.dest, qout.it),
                           !.sent = qout.sent + 1]
     IN qout' = IF f.sent = qin.limit THEN StreamReturn(f, "nil")
                ELSE [f EXCEPT !.pc = "next"]
  /\ streamUnchanged

\* The deferred calls at the return, the last deferred first:
\* closeIterator sets err to the error of it.Close if err is nil.
StreamDefer ==
  /\ Streaming /\ qout.pc = "defers"
  /\ qout' =
       IF qout.defers = << >> THEN [qout EXCEPT !.pc = "returned"]
       ELSE LET call == qout.defers[Len(qout.defers)]
                f == [qout EXCEPT !.defers = SubSeq(qout.defers, 1, Len(qout.defers) - 1)]
            IN IF call = "close(dest)"
                 THEN [f EXCEPT !.closed = qout.closed + 1]
                 ELSE [f EXCEPT !.itClosed = qout.itClosed + 1,
                                !.err = IF qin.closeErr /\ qout.err = "nil"
                                          THEN "it.Close" ELSE qout.err]
  /\ streamUnchanged

InitStream ==
  /\ IndexInit(Env({}, 0, FALSE), FALSE)
  /\ qin \in StreamRequests
  /\ qout = noQuery
  /\ noEnum
NextStream == StreamCall \/ StreamChecks \/ StreamNext \/ StreamSend \/ StreamDefer
SpecStream == InitStream /\ [][NextStream]_vars

\* C28: GetRecentPermanodes, SearchPermanodesWithAttr and GetDirMembers
\* close dest exactly once on every return path, the paths that return an
\* error included: dest is never closed twice, nothing is sent after the
\* close, and when the method has returned dest has been closed once.
C28_DestClosedOnce ==
  /\ [](Streaming => /\ qout.closed <= 1
                     /\ (qout.pc = "returned" => qout.closed = 1))
  /\ [][Streaming /\ qout.closed > 0 => qout'.dest = qout.dest]_vars

\* GetDirMembers has sent a child, met a bogus key and returned the error
\* with dest closed.
C28_Witness ==
  /\ Streaming /\ qout.pc = "returned"
  /\ qin.method = "GetDirMembers"
  /\ qout.err = "bogus key"
  /\ Len(qout.dest) = 1
  /\ qout.closed = 1

\* ---------------------------------------------------------------------------
\* Client: the gate of HTTP requests and the upload of the public key
\* ---------------------------------------------------------------------------
maxParallelHTTP == 5
MaxCallers == 6     \* goroutines that call the client at the same time
SignCallers == 2    \* goroutines that call UploadAndSignBlob
MaxSignCalls == 3   \* calls of UploadAndSignBlob in a session

\* A syncutil.Gate of maxParallelHTTP slots, as the number of slots taken:
\* Start takes a slot and blocks while none is free, Done frees one.
NewGate == 0
gateHasSlot(g) == g < maxParallelHTTP
gateStart(g) == g + 1
gateDone(g) == g - 1

\* The Client New returns, called by the goroutines C: haveCache is
\* noHaveCache{} unless SetHaveCache gave the client a cache (have: the refs
\* the cache has noted); sigRef is SignerPublicKeyBlobref.  For each
\* goroutine, pc is where it is, blob what it uploads or requests and res
\* the error of its last call.  keyPuts counts the requests that uploaded
\* the public key, calls the calls of UploadAndSignBlob.
NewClient(C, cache, sigRef) ==
  [ haveCache |-> cache, have |-> {}, sigRef |-> sigRef, httpGate |-> NewGate,
    pc |-> [c \in C |-> "idle"], blob |-> [c \in C |-> "none"],
    res |-> [c \in C |-> "nil"], keyPuts |-> 0, calls |-> 0 ]

Callers == IF hc = noClient THEN {} ELSE DOMAIN hc.pc

\* HaveCache.StatBlobCache and NoteBlobExists, of noHaveCache and of a
\* cache that keeps what it is told.  The signed blobs of two calls are
\* different blobs, so only the key is looked up again.
StatBlobCache(h, br) == h.haveCache # "noHaveCache" /\ br \in h.have
NoteBlobExists(h, br) ==
  IF h.haveCache = "noHaveCache" \/ br # "key" THEN h
  ELSE [h EXCEPT !.have = h.have \cup {br}]

clientUnchanged ==
  UNCHANGED << indexVars, qin, qout, en, ctxDone, me, ea, co, cm, cx, hub, host, sh >>

\* A method that issues one request through doReqGated (expect2XX,
\* discoveryResp, SearchExistingFileSchema).
ClientRequest(c) ==
  /\ hc.pc[c] = "idle"
  /\ hc' = [hc EXCEPT !.pc[c] = "Start", !.blob[c] = "req", !.res[c] = "nil"]
  /\ clientUnchanged

\* doReqGated: c.httpGate.Start().
GateStart(c) ==
  /\ hc.pc[c] = "Start"
  /\ gateHasSlot(hc.httpGate)
  /\ hc' = [hc EXCEPT !.httpGate = gateStart(hc.httpGate), !.pc[c] = "Do"]
  /\ clientUnchanged

\* doReqGated: c.httpClient.Do(req) returns a response or an error.
HTTPDo(c) ==
  /\ hc.pc[c] = "Do"
  /\ \E err \in {"nil", "err"} :
       hc' = [hc EXCEPT !.pc[c] = "Done", !.res[c] = err,
                        !.keyPuts = IF hc.blob[c] = "key" /\ err = "nil"
                                      THEN hc.keyPuts + 1 ELSE hc.keyPuts]
  /\ clientUnchanged

\* What the caller of doReqGated does with the result: Upload notes the
\* blob in the have cache; uploadPublicKey's error ends UploadAndSignBlob,
\* its success leads to the upload of the signed blob.
afterRequest(h, c) ==
  IF h.res[c] # "nil" THEN [h EXCEPT !.pc[c] = "returned"]
  ELSE LET n == NoteBlobExists(h, h.blob[c])
       IN IF h.blob[c] = "key" THEN [n EXCEPT !.pc[c] = "uploadSigned"]
          ELSE [n EXCEPT !.pc[c] = "returned"]

\* A variant of the return of doReqGated that frees the slot only when the
\* request succeeded.
GateDoneOnSuccess(c) ==
  /\ hc.pc[c] = "Done"
  /\ hc' = afterRequest([hc EXCEPT !.httpGate = IF hc.res[c] = "nil"
                                                  THEN gateDone(hc.httpGate)
                                                  ELSE hc.httpGate], c)
  /\ clientUnchanged

\* doReqGated returns: the deferred c.httpGate.Done(), then its caller.
GateDone(c) ==
  /\ hc.pc[c] = "Done"
  /\ hc' = afterRequest([hc EXCEPT !.httpGate = gateDone(hc.httpGate)], c)
  /\ clientUnchanged

\* The caller goes on to its next call.
ClientReturned(c) ==
  /\ hc.pc[c] = "returned"
  /\ hc' = [hc EXCEPT !.pc[c] = "idle", !.blob[c] = "none", !.res[c] = "nil"]
  /\ clientUnchanged

\* Client.Upload of a handle with SkipStat: a blob the have cache knows is
\* skipped, any other is sent without a stat.
Upload(h, c, br) ==
  IF StatBlobCache(h, br)
    THEN afterRequest([h EXCEPT !.blob[c] = br, !.res[c] = "nil"], c)
    ELSE [h EXCEPT !.pc[c] = "Start", !.blob[c] = br]

\* UploadAndSignBlob: signBlob, which may fail.
UploadAndSignBlob(c) ==
  /\ hc.pc[c] = "idle"
  /\ hc.calls < MaxSignCalls
  /\ \E err \in {"nil", "err"} :
       hc' = [hc EXCEPT !.calls = hc.calls + 1, !.res[c] = err,
                        !.pc[c] = IF err = "nil" THEN "uploadPublicKey"
                                  ELSE "returned"]
  /\ clientUnchanged

\* Client.uploadPublicKey: nothing without a valid sigRef or when the have
\* cache has the key, else uploadString(c.publicKeyArmored, false).
uploadPublicKey(c) ==
  /\ hc.pc[c] = "uploadPublicKey"
  /\ hc' = IF hc.sigRef = zeroRef \/ StatBlobCache(hc, hc.sigRef)
             THEN [hc EXCEPT !.pc[c] = "uploadSigned"]
             ELSE Upload(hc, c, "key")
  /\ clientUnchanged

\* UploadAndSignBlob: uploadString(signed, false).
uploadSigned(c) ==
  /\ hc.pc[c] = "uploadSigned"
  /\ hc' = Upload(hc, c, "signed")
  /\ clientUnchanged

\* doReqGated for a goroutine that called it, and the return to its caller.
GatedRequest ==
  \/ \E c \in Callers : GateStart(c)
  \/ \E c \in Callers : HTTPDo(c)
  \/ \E c \in Callers : GateDone(c)
  \/ \E c \in Callers : ClientReturned(c)

\* SpecGate: MaxCallers goroutines issue gated requests.
InitGate ==
  /\ IndexInit(Env({}, 0, FALSE), FALSE)
  /\ qin = noQuery /\ qout = noQuery
  /\ en = << >> /\ ctxDone = FALSE /\ me = noMerge /\ ea = noEnumAll
  /\ co = noCorpus /\ cm = corpusMu /\ cx = noContext /\ hub = noHub /\ host = noHost /\ sh = noSign
  /\ hc = NewClient(1..MaxCallers, "noHaveCache", "key")
NextGate == (\E c \in Callers : ClientRequest(c)) \/ GatedRequest
SpecGate == InitGate /\ [][NextGate]_vars

\* SpecSign: SignCallers goroutines call UploadAndSignBlob, on the client
\* as New returns it or after SetHaveCache.
InitSign ==
  /\ IndexInit(Env({}, 0, FALSE), FALSE)
  /\ qin = noQuery /\ qout = noQuery
  /\ en = << >> /\ ctxDone = FALSE /\ me = noMerge /\ ea = noEnumAll
  /\ co = noCorpus /\ cm = corpusMu /\ cx = noContext /\ hub = noHub /\ host = noHost /\ sh = noSign
  /\ \E cache \in {"noHaveCache", "kv"}, sigRef \in {"key", zeroRef} :
       hc = NewClient(1..SignCallers, cache, sigRef)
NextSign ==
  \/ \E c \in Callers : UploadAndSignBlob(c)
  \/ \E c \in Callers : uploadPublicKey(c)
  \/ \E c \in Callers : uploadSigned(c)
  \/ GatedRequest
SpecSign == InitSign /\ [][NextSign]_vars

\* The goroutines inside c.httpClient.Do, and those that hold a slot of
\* the gate.
InFlight == { c \in Callers : hc.pc[c] = "Do" }
SlotHolders == { c \in Callers : hc.pc[c] \in {"Do", "Done"} }

\* C29: at most maxParallelHTTP requests of doReqGated are in flight; the
\* slots taken are those of the requests that have not finished, so that a
\* request that finished has released its slot whether it succeeded or
\* failed; and a caller passes Start only when fewer than maxParallelHTTP
\* slots are taken, so that a further caller waits for a Done.
C29_GateBoundsRequests ==
  /\ [](/\ Cardinality(InFlight) <= maxParallelHTTP
        /\ hc.httpGate = Cardinality(SlotHolders)
        /\ (hc.httpGate = maxParallelHTTP =>
              \A c \in Callers : hc.pc[c] = "Start" => ~ENABLED GateStart(c)))
  /\ [][\A c \in Callers :
          /\ (hc.pc[c] = "Start" /\ hc'.pc[c] # "Start") =>
                (hc.httpGate < maxParallelHTTP /\ hc'.httpGate = hc.httpGate + 1)
          /\ (hc.pc[c] = "Done" /\ hc'.pc[c] # "Done") =>
                hc'.httpGate = hc.httpGate - 1]_vars

\* Five requests hold the slots, one of them having failed and about to
\* release its slot, and a sixth caller waits in Start.
C29_Witness ==
  /\ hc.httpGate = maxParallelHTTP
  /\ Cardinality(InFlight) = maxParallelHTTP - 1
  /\ \E c \in Callers : hc.pc[c] = "Done" /\ hc.res[c] = "err"
  /\ \E c \in Callers : hc.pc[c] = "Start"

\* C30: in a session the client uploads its public key at most once,
\* however many times UploadAndSignBlob is called.
C30_KeyUploadedOnce == hc.keyPuts <= 1

\* ---------------------------------------------------------------------------
\* auth: the operations a request is allowed
\* ---------------------------------------------------------------------------
\* An Operation is a bitmask of the seven OpX bits, here the set of the bits
\* that are set: | is \cup, & is \cap and 0 is {}.
Ops == {"Upload", "Stat", "Get", "Enumerate", "Remove", "Sign", "Discovery"}
OpRead == {"Enumerate", "Stat", "Get", "Discovery"}
OpVivify == {"Upload", "Stat", "Get", "Discovery"}
OpAll == Ops

\* The AuthModes of authConstructor, and "readonly", a mode a package has
\* registered with RegisterAuth that grants OpRead to every request.
AuthModes ==
  { [kind |-> "none", OrLocalhost |-> FALSE],
    [kind |-> "localhost", OrLocalhost |-> FALSE],
    [kind |-> "userpass", OrLocalhost |-> FALSE],
    [kind |-> "userpass", OrLocalhost |-> TRUE],
    [kind |-> "devauth", OrLocalhost |-> FALSE],
    [kind |-> "readonly", OrLocalhost |-> FALSE] }

\* A request: the user and password of its Authorization header (basic is
\* FALSE when basicAuth returns an error) and whether localhostAuthorized
\* holds of it.  The modes have Username "joe", Password "pw" and
\* VivifyPass "vivi".
AuthRequests ==
  [basic : BOOLEAN, user : {"joe", "other"}, pass : {"pw", "vivi", "wrong"},
   localhost : BOOLEAN]

\* AllowedAccess of UserPass, None, Localhost and DevAuth.
AllowedAccess(m, req) ==
  CASE m.kind = "none" -> OpAll
    [] m.kind = "localhost" -> IF req.localhost THEN OpAll ELSE {}
    [] m.kind = "userpass" ->
         IF req.basic /\ req.user = "joe" /\ req.pass = "pw" THEN OpAll
         ELSE IF req.basic /\ req.user = "joe" /\ req.pass = "vivi" THEN OpVivify
         ELSE IF m.OrLocalhost /\ req.localhost THEN OpAll
         ELSE {}
    [] m.kind = "devauth" ->
         IF req.basic /\ req.pass = "pw" THEN OpAll
         ELSE IF req.basic /\ req.pass = "vivi" THEN OpVivify
         ELSE IF req.localhost THEN OpAll
         ELSE {}
    [] OTHER -> OpRead

\* auth.Allowed: `if op|OpUpload != 0 { op = op | OpVivify }`, then
\* mode.AllowedAccess(req)&op == op.
allowedOp(op) == IF op \cup {"Upload"} # {} THEN op \cup OpVivify ELSE op
authAllowed(m, req, op) ==
  AllowedAccess(m, req) \cap allowedOp(op) = allowedOp(op)

\* The call auth.Allowed(req, op) under the mode SetMode has set.
Allowed ==
  /\ qin.op = "Allowed"
  /\ qout = noQuery
  /\ qout' = [op |-> qin.op, val |-> authAllowed(qin.mode, qin.req, qin.ops)]
  /\ UNCHANGED << env, store, kv, deletes, dlock, corpusOn, corpusBlobs, corpusGen,
                  pc, mode, blobOf, mm, ret, rd, rx, fails, reindexes, co, hc, cx, hub, host, sh, cm, qin,
                  en, ctxDone, me, ea >>

InitAllowed ==
  /\ IndexInit(Env({}, 0, FALSE), FALSE)
  /\ qin \in [op : {"Allowed"}, mode : AuthModes, req : AuthRequests,
              ops : SUBSET Ops]
  /\ qout = noQuery
  /\ noEnum
NextAllowed == Allowed
SpecAllowed == InitAllowed /\ [][NextAllowed]_vars

\* C31: auth.Allowed(req, op) is true if and only if the operations the
\* active mode grants to the request include every operation of op.
C31_AllowedIffGranted ==
  (qout # noQuery /\ qout.op = "Allowed") =>
     (qout.val <=> qin.ops \subseteq AllowedAccess(qin.mode, qin.req))

\* ---------------------------------------------------------------------------
\* context: a parent Context and the child its New method returns
\* ---------------------------------------------------------------------------
\* A Context: closes counts the close(c.done) calls (the second would
\* panic), once is its cancelOnce: "new", "running" while a Do runs cancel,
\* "done" after it.
newContext == [ closes |-> 0, once |-> "new", by |-> "" ]

\* The goroutines: "g" is the one (*Context).New starts, "u1" cancels the
\* parent, "u2" and "u3" cancel the child.
CxProcs == {"g", "u1", "u2", "u3"}
cxTarget(p) == IF p = "u1" THEN "parent" ELSE "child"

\* parent := New(); child := parent.New(): g waits in <-c.Done().
ContextNew ==
  [ ctx |-> [t \in {"parent", "child"} |-> newContext],
    pc |-> [p \in CxProcs |-> IF p = "g" THEN "wait" ELSE "idle"],
    panic |-> FALSE ]

cxUnchanged ==
  UNCHANGED << indexVars, qin, qout, en, ctxDone, me, ea, co, cm, hc, hub, host, sh >>

\* A caller calls Cancel on its context.
CancelCall(p) ==
  /\ p # "g" /\ cx.pc[p] = "idle"
  /\ cx' = [cx EXCEPT !.pc[p] = "Cancel"]
  /\ cxUnchanged

\* The goroutine of New: <-c.Done() returns when the parent is closed, and
\* it calls subc.Cancel().
GoParentDone ==
  /\ cx.pc["g"] = "wait"
  /\ cx.ctx["parent"].closes > 0
  /\ cx' = [cx EXCEPT !.pc["g"] = "Cancel"]
  /\ cxUnchanged

\* A variant of Cancel that calls c.cancel() without cancelOnce.
CancelEveryTime(p) ==
  /\ cx.pc[p] = "Cancel"
  /\ cx' = [cx EXCEPT !.pc[p] = "cancel"]
  /\ cxUnchanged

\* Cancel: c.cancelOnce.Do(c.cancel) returns at once after a Do that has
\* finished, waits for one that is running, and else runs cancel.
CancelOnce(p) ==
  /\ cx.pc[p] = "Cancel"
  /\ cx.ctx[cxTarget(p)].once # "running"
  /\ cx' = IF cx.ctx[cxTarget(p)].once = "done"
             THEN [cx EXCEPT !.pc[p] = "returned"]
             ELSE [cx EXCEPT !.pc[p] = "cancel",
                             !.ctx[cxTarget(p)].once = "running"]
  /\ cxUnchanged

\* cancel: close(c.done); closing a closed channel panics.
cancel(p) ==
  /\ cx.pc[p] = "cancel"
  /\ LET c == cx.ctx[cxTarget(p)]
     IN cx' = [cx EXCEPT !.pc[p] = "cancelled",
                         !.panic = cx.panic \/ c.closes > 0,
                         !.ctx[cxTarget(p)].closes = IF c.closes < 2 THEN c.closes + 1
                                                     ELSE c.closes,
                         !.ctx[cxTarget(p)].by = IF c.closes = 0 THEN p ELSE c.by]
  /\ cxUnchanged

\* The end of cancelOnce.Do, and the return of Cancel.
CancelReturn(p) ==
  /\ cx.pc[p] = "cancelled"
  /\ cx' = [cx EXCEPT !.pc[p] = "returned", !.ctx[cxTarget(p)].once = "done"]
  /\ cxUnchanged

\* The caller goes on, and may cancel again.
CancelAgain(p) ==
  /\ p # "g" /\ cx.pc[p] = "returned"
  /\ cx' = [cx EXCEPT !.pc[p] = "idle"]
  /\ cxUnchanged

InitContext ==
  /\ IndexInit(Env({}, 0, FALSE), FALSE)
  /\ qin = noQuery /\ qout = noQuery
  /\ en = << >> /\ ctxDone = FALSE /\ me = noMerge /\ ea = noEnumAll
  /\ co = noCorpus /\ cm = corpusMu /\ hc = noClient
  /\ hub = noHub /\ host = noHost /\ sh = noSign
  /\ cx = ContextNew
NextContext ==
  \/ \E p \in CxProcs : CancelCall(p)
  \/ GoParentDone
  \/ \E p \in CxProcs : CancelOnce(p)
  \/ \E p \in CxProcs : cancel(p)
  \/ \E p \in CxProcs : CancelReturn(p)
  \/ \E p \in CxProcs : CancelAgain(p)
SpecContext == InitContext /\ [][NextContext]_vars

\* Every goroutine that is inside Cancel or can leave <-c.Done() is
\* scheduled.
cxRuns(p) == CancelOnce(p) \/ cancel(p) \/ CancelReturn(p)
SpecContextFair ==
  /\ SpecContext
  /\ WF_vars(GoParentDone)
  /\ \A p \in CxProcs : WF_vars(cxRuns(p))

\* C32: after the parent is cancelled the child becomes done, and no
\* close(done) panics, whether or not the child was cancelled before or is
\* being cancelled at the same time.
C32_ChildDoneAfterParent ==
  /\ [](~cx.panic /\ \A t \in {"parent", "child"} : cx.ctx[t].closes <= 1)
  /\ (cx.ctx["parent"].closes > 0 ~> cx.ctx["child"].closes > 0)

\* The child was cancelled by a caller of its own, and the goroutine of New
\* has called subc.Cancel after the parent's cancellation while another
\* caller is cancelling the child too.
C32_Witness ==
  /\ cx.ctx["parent"].closes = 1
  /\ cx.ctx["child"].closes = 1 /\ cx.ctx["child"].by = "u2"
  /\ cx.pc["g"] = "returned"
  /\ cx.pc["u3"] = "Cancel"

\* ---------------------------------------------------------------------------
\* The deletes cache and the deleted| rows
\* ---------------------------------------------------------------------------
\* No goroutine is inside Index.commit: the write lock of the deletes cache
\* is free.
NoCommit == dlock.w = 0

\* C33: whenever no commit is in progress the deletes cache is the cache
\* initDeletesCache would build from the deleted| rows: for each target the
\* same deleters, none extra, missing or twice.
C33_CacheEqualsRows == NoCommit => CacheIsOfRows

\* C34: after concurrent ReceiveBlob calls of one blob have returned, the
\* index is as one call leaves it; in particular a delete claim is recorded
\* once in the deletes cache, as one call records it.
C34_ConcurrentReceiveOnce ==
  Quiescent =>
    \A t \in Blobs : \A i, j \in 1..Len(deletes[t]) :
       deletes[t][i].deleter = deletes[t][j].deleter => i = j

\* ---------------------------------------------------------------------------
\* Reindex when the enumeration of the source fails
\* ---------------------------------------------------------------------------
\* SpecEnumErr: SpecReindex on a source whose EnumerateBlobs may return an
\* error.
InitEnumErr == InitIndex(Env({"p", "d1"}, 1, TRUE), FALSE)
NextEnumErr == Ingest \/ Reindexing \/ EnumerateFail \/ ReindexEnumErr
SpecEnumErr == InitEnumErr /\ [][NextEnumErr]_vars

\* Reindex has returned and no ReceiveBlob has been called since.
ReindexReturned == rx.pc = "off" /\ rx.result # "none"

\* C35: when Reindex has returned, on the enumeration-error path too, no
\* worker is still re-ingesting a blob: none is inside ReceiveBlob and none
\* has a ref of blobc left to take.
C35_WorkersDoneOnReturn ==
  ReindexReturned =>
    \A p \in Procs : mode[p] = "worker" => (pc[p] = "idle" /\ rx.blobc = << >>)

\* ---------------------------------------------------------------------------
\* search: the WebSocket hub and its connections
\* ---------------------------------------------------------------------------
HubChanCap == 2     \* capacity of the hub's channels (buffered)
SendCap == 1        \* capacity of a connection's send channel (256)
MaxMsgs == 1        \* messages a client sends on its connection
MaxBlobs == 1       \* new blobs announced on newBlobRecv
MaxSearch == 2      \* doSearch goroutines of one connection at a time

WsConns == {1, 2}

\* newWebsocketHub, and no connection yet.  For each connection: send is
\* its channel (len messages in the buffer, closes the close(c.send)
\* calls), queries whether it has a watched query under its tag, rp where
\* serveWebSocket and readPump are, wp the writePump, search its doSearch
\* goroutines.  pc is where run is: in the select, or in
\* wq.conn.send <- resb for the connection `to`.
newWebsocketHub ==
  [ pc |-> "select", to |-> 0,
    register |-> << >>, unregister |-> << >>, watchReq |-> << >>,
    updatedResults |-> << >>, newBlobRecv |-> 0,
    conns |-> {},
    queries |-> [c \in WsConns |-> FALSE],
    send |-> [c \in WsConns |-> [len |-> 0, closes |-> 0]],
    rp |-> [c \in WsConns |-> "off"],
    wp |-> [c \in WsConns |-> "off"],
    search |-> [c \in WsConns |-> 0],
    msgs |-> [c \in WsConns |-> 0],
    blobs |-> 0, panic |-> FALSE ]

hubUnchanged ==
  UNCHANGED << indexVars, qin, qout, en, ctxDone, me, ea, co, cm, hc, cx, host, sh >>

\* serveWebSocket: the upgrade and the new wsConn.
serveWebSocket(c) ==
  /\ hub.rp[c] = "off"
  /\ hub' = [hub EXCEPT !.rp[c] = "register"]
  /\ hubUnchanged

\* serveWebSocket: sh.wsHub.register <- c, go c.writePump(), c.readPump().
WsRegister(c) ==
  /\ hub.rp[c] = "register"
  /\ Len(hub.register) < HubChanCap
  /\ hub' = [hub EXCEPT !.register = Append(@, c), !.rp[c] = "read",
                        !.wp[c] = "run"]
  /\ hubUnchanged

\* readPump: c.ws.ReadMessage returns a subscription or an unsubscription
\* (Query absent), or an error that ends the loop.
ReadMessage(c) ==
  /\ hub.rp[c] = "read"
  /\ \/ /\ hub.msgs[c] < MaxMsgs
        /\ \E sub \in BOOLEAN :
             hub' = [hub EXCEPT !.rp[c] = IF sub THEN "watch" ELSE "unwatch",
                                !.msgs[c] = @ + 1]
     \/ hub' = [hub EXCEPT !.rp[c] = "unregister"]
  /\ hubUnchanged

\* readPump: c.sh.wsHub.watchReq <- watchReq{c, tag, q}.
WsWatchReq(c) ==
  /\ hub.rp[c] \in {"watch", "unwatch"}
  /\ Len(hub.watchReq) < HubChanCap
  /\ hub' = [hub EXCEPT !.watchReq = Append(@, [conn |-> c, q |-> hub.rp[c] = "watch"]),
                        !.rp[c] = "read"]
  /\ hubUnchanged

\* readPump's deferred function: c.sh.wsHub.unregister <- c.
WsUnregister(c) ==
  /\ hub.rp[c] = "unregister"
  /\ Len(hub.unregister) < HubChanCap
  /\ hub' = [hub EXCEPT !.unregister = Append(@, c), !.rp[c] = "done"]
  /\ hubUnchanged

\* writePump takes a message from c.send and writes it.
WritePumpWrite(c) ==
  /\ hub.wp[c] = "run"
  /\ hub.send[c].len > 0
  /\ hub' = [hub EXCEPT !.send[c].len = @ - 1]
  /\ hubUnchanged

\* writePump returns: a write or a ping failed, or c.send is closed and
\* drained.
WritePumpExit(c) ==
  /\ hub.wp[c] = "run"
  /\ hub' = [hub EXCEPT !.wp[c] = "exited"]
  /\ hubUnchanged

\* A new blob is announced to the hub.
NewBlobRecv ==
  /\ hub.blobs < MaxBlobs
  /\ hub.newBlobRecv < HubChanCap
  /\ hub' = [hub EXCEPT !.newBlobRecv = @ + 1, !.blobs = @ + 1]
  /\ hubUnchanged

\* run: case c := <-h.register.
HubRegister ==
  /\ hub.pc = "select" /\ hub.register # << >>
  /\ hub' = [hub EXCEPT !.register = Tail(@),
                        !.conns = @ \cup { Head(hub.register) }]
  /\ hubUnchanged

\* run: case c := <-h.unregister; closing a closed channel panics.
HubUnregister ==
  /\ hub.pc = "select" /\ hub.unregister # << >>
  /\ LET c == Head(hub.unregister)
     IN hub' = [hub EXCEPT !.unregister = Tail(@),
                           !.conns = @ \ {c},
                           !.panic = @ \/ hub.send[c].closes > 0,
                           !.pc = IF hub.send[c].closes > 0 THEN "panic" ELSE "select",
                           !.send[c].closes = IF @ < 2 THEN @ + 1 ELSE @]
  /\ hubUnchanged

\* run: case camliType := <-h.newBlobRecv: go h.doSearch(wq) for every
\* query of every registered connection.
HubNewBlob ==
  /\ hub.pc = "select" /\ hub.newBlobRecv > 0
  /\ \A c \in WsConns : hub.search[c] < MaxSearch
  /\ hub' = [hub EXCEPT !.newBlobRecv = @ - 1,
                        !.search = [c \in WsConns |->
                                      IF c \in hub.conns /\ hub.queries[c]
                                        THEN hub.search[c] + 1 ELSE hub.search[c]]]
  /\ hubUnchanged

\* run: case wr := <-h.watchReq: an unsubscription deletes the query, a
\* subscription stores it and starts doSearch.
HubWatchReq ==
  /\ hub.pc = "select" /\ hub.watchReq # << >>
  /\ LET wr == Head(hub.watchReq)
     IN /\ wr.q => hub.search[wr.conn] < MaxSearch
        /\ hub' = [hub EXCEPT !.watchReq = Tail(@),
                              !.queries[wr.conn] = wr.q,
                              !.search[wr.conn] = IF wr.q THEN @ + 1 ELSE @]
  /\ hubUnchanged

\* doSearch: the result has not changed (or the query failed), or
\* h.updatedResults <- wq.
doSearch(c) ==
  /\ hub.search[c] > 0
  /\ \/ hub' = [hub EXCEPT !.search[c] = @ - 1]
     \/ /\ Len(hub.updatedResults) < HubChanCap
        /\ hub' = [hub EXCEPT !.search[c] = @ - 1,
                              !.updatedResults = Append(@, c)]
  /\ hubUnchanged

\* run: case wq := <-h.updatedResults, up to the send.
HubUpdatedResults ==
  /\ hub.pc = "select" /\ hub.updatedResults # << >>
  /\ LET c == Head(hub.updatedResults)
     IN hub' = IF c \notin hub.conns \/ ~hub.queries[c]
                 THEN [hub EXCEPT !.updatedResults = Tail(@)]
                 ELSE [hub EXCEPT !.updatedResults = Tail(@), !.pc = "send", !.to = c]
  /\ hubUnchanged

\* run: wq.conn.send <- resb: a send on a closed channel panics, a send on
\* a full one waits.
HubSend ==
  /\ hub.pc = "send"
  /\ hub.send[hub.to].closes > 0 \/ hub.send[hub.to].len < SendCap
  /\ hub' = IF hub.send[hub.to].closes > 0
              THEN [hub EXCEPT !.panic = TRUE, !.pc = "panic"]
              ELSE [hub EXCEPT !.send[hub.to].len = @ + 1, !.pc = "select", !.to = 0]
  /\ hubUnchanged

InitHub ==
  /\ IndexInit(Env({}, 0, FALSE), FALSE)
  /\ qin = noQuery /\ qout = noQuery
  /\ en = << >> /\ ctxDone = FALSE /\ me = noMerge /\ ea = noEnumAll
  /\ co = noCorpus /\ cm = corpusMu /\ hc = noClient
  /\ cx = noContext /\ host = noHost /\ sh = noSign
  /\ hub = newWebsocketHub
NextHub ==
  \/ \E c \in WsConns : serveWebSocket(c)
  \/ \E c \in WsConns : WsRegister(c)
  \/ \E c \in WsConns : ReadMessage(c)
  \/ \E c \in WsConns : WsWatchReq(c)
  \/ \E c \in WsConns : WsUnregister(c)
  \/ \E c \in WsConns : WritePumpWrite(c)
  \/ \E c \in WsConns : WritePumpExit(c)
  \/ \E c \in WsConns : doSearch(c)
  \/ NewBlobRecv
  \/ HubRegister
  \/ HubUnregister
  \/ HubNewBlob
  \/ HubWatchReq
  \/ HubUpdatedResults
  \/ HubSend
SpecHub == InitHub /\ [][NextHub]_vars

\* C36: the hub never sends on a closed send channel and never closes one
\* twice.
C36_NoSendAfterClose == ~hub.panic

\* Every goroutine that can take a step eventually takes one: the hub's
\* loop, the pumps of each connection, the searches.  A write that fails
\* and a client that goes away are up to the environment.
hubRuns ==
  HubRegister \/ HubUnregister \/ HubNewBlob \/ HubWatchReq
    \/ HubUpdatedResults \/ HubSend
SpecHubFair ==
  /\ SpecHub
  /\ WF_vars(hubRuns)
  /\ \A c \in WsConns :
       /\ WF_vars(WritePumpWrite(c))
       /\ WF_vars(WsRegister(c) \/ WsWatchReq(c) \/ WsUnregister(c))
       /\ WF_vars(doSearch(c))

\* C37: the hub's loop never waits forever in the delivery of a result to a
\* connection: from wq.conn.send <- resb on an open channel it always
\* comes back to its select.
C37_HubNeverBlocksForever ==
  (hub.pc = "send" /\ hub.send[hub.to].closes = 0) ~> (hub.pc # "send")

\* ---------------------------------------------------------------------------
\* importer: Host.start, Host.stop and the goroutine that runs the importer
\* ---------------------------------------------------------------------------
MaxRuns == 3        \* runs started on one Host

Runs == 1..MaxRuns

\* A Host whose importer has not run.  Run k is given stop channel k;
\* closes[k] counts the close calls on it; run[k] is where the goroutine
\* of run k is: in h.imp.Run ("run"), between its return and the locked
\* epilogue ("returned"), or finished; req is what the last request did.
newHost ==
  [ pc |-> "on", running |-> FALSE, stopreq |-> 0, lastRunErr |-> "none",
    started |-> 0,
    run |-> [k \in Runs |-> "none"],
    err |-> [k \in Runs |-> "none"],
    closes |-> [k \in Runs |-> 0],
    req |-> "none" ]

hostUnchanged ==
  UNCHANGED << indexVars, qin, qout, en, ctxDone, me, ea, co, cm, hc, cx, hub, sh >>

\* Host.start, under h.mu.
start ==
  /\ host.pc = "on"
  /\ IF host.running
       THEN host' = [host EXCEPT !.req = "start: running"]
       ELSE /\ host.started < MaxRuns
            /\ LET k == host.started + 1
               IN host' = [host EXCEPT !.running = TRUE, !.stopreq = k,
                                       !.started = k, !.run[k] = "run",
                                       !.req = "start: started"]
  /\ hostUnchanged

\* Host.stop, under h.mu; closing a closed channel panics.
stop ==
  /\ host.pc = "on"
  /\ IF ~host.running
       THEN host' = [host EXCEPT !.req = "stop: not running"]
       ELSE host' = [host EXCEPT !.running = FALSE,
                                 !.closes[host.stopreq] = @ + 1,
                                 !.pc = IF host.closes[host.stopreq] > 0
                                          THEN "panic" ELSE "on",
                                 !.req = "stop: closed"]
  /\ hostUnchanged

\* Interrupt.ShouldStop: whether the channel is closed.
ShouldStop(k) == host.closes[k] > 0

\* h.imp.Run(h, stopCh) returns: nil, an error of its own, or
\* ErrInterrupted once ShouldStop reports the close.
RunReturns(k) ==
  /\ host.pc = "on"
  /\ host.run[k] = "run"
  /\ \E e \in {"nil", "error"} \cup (IF ShouldStop(k) THEN {"ErrInterrupted"} ELSE {}) :
       host' = [host EXCEPT !.run[k] = "returned", !.err[k] = e, !.req = "none"]
  /\ hostUnchanged

\* The goroutine's epilogue, under h.mu.
RunDone(k) ==
  /\ host.pc = "on"
  /\ host.run[k] = "returned"
  /\ host' = [host EXCEPT !.run[k] = "done", !.running = FALSE,
                          !.lastRunErr = host.err[k], !.req = "none"]
  /\ hostUnchanged

InitHost ==
  /\ IndexInit(Env({}, 0, FALSE), FALSE)
  /\ qin = noQuery /\ qout = noQuery
  /\ en = << >> /\ ctxDone = FALSE /\ me = noMerge /\ ea = noEnumAll
  /\ co = noCorpus /\ cm = corpusMu /\ hc = noClient
  /\ cx = noContext /\ hub = noHub /\ sh = noSign
  /\ host = newHost
NextHost ==
  \/ start
  \/ stop
  \/ \E k \in Runs : RunReturns(k)
  \/ \E k \in Runs : RunDone(k)
SpecHost == InitHost /\ [][NextHost]_vars

ActiveRuns == { k \in Runs : host.run[k] = "run" }

\* C38: at most one importer Run of a Host is active at any time.
C38_OneActiveRun == Cardinality(ActiveRuns) <= 1

\* C39: while a Run is active and has not been asked to stop, the Host is
\* marked running and stopreq is that run's stop channel (so a stop request
\* closes it); no stop channel is closed twice.
C39_RunningTracksActiveRun ==
  /\ host.pc # "panic"
  /\ \A k \in ActiveRuns :
       ~ShouldStop(k) => (host.running /\ host.stopreq = k)

\* ---------------------------------------------------------------------------
\* signhandler: Handler.uploadPublicKey
\* ---------------------------------------------------------------------------
MaxKeyCalls == 3    \* calls of uploadPublicKey on one handler

KeyCallers == {1, 2}

\* The handler after newHandler: pubKeyUploaded false, pubKeyUploadMu free
\* (w its writer).  has is whether pubKeyDest holds the key blob; at[p]
\* is where caller p is, out[p] what its last call returned; stats, hits
\* and receives count the StatBlob calls, the stat hits and the successful
\* Receive calls.
newSignHandler(has) ==
  [ pc |-> "on", pubKeyUploaded |-> FALSE, w |-> 0, has |-> has,
    at |-> [p \in KeyCallers |-> "idle"],
    out |-> [p \in KeyCallers |-> "none"],
    calls |-> 0, stats |-> 0, hits |-> 0, receives |-> 0, failed |-> 0 ]

signUnchanged ==
  UNCHANGED << indexVars, qin, qout, en, ctxDone, me, ea, co, cm, hc, cx, hub, host >>

\* blobserver.StatBlob: the statter's error, or nil with the size when it
\* sent the blob, or os.ErrNotExist when it sent nothing.
SignStatBlob(has, statErr) ==
  IF statErr THEN "error" ELSE IF has THEN "nil" ELSE "ErrNotExist"

\* A caller enters uploadPublicKey.
KeyCall(p) ==
  /\ sh.pc = "on"
  /\ sh.at[p] = "idle"
  /\ sh.calls < MaxKeyCalls
  /\ sh' = [sh EXCEPT !.at[p] = "rlock", !.out[p] = "none", !.calls = @ + 1]
  /\ signUnchanged

\* The read-locked look at pubKeyUploaded.
KeyFastPath(p) ==
  /\ sh.at[p] = "rlock"
  /\ sh.w = 0
  /\ sh' = IF sh.pubKeyUploaded
             THEN [sh EXCEPT !.at[p] = "idle", !.out[p] = "nil"]
             ELSE [sh EXCEPT !.at[p] = "lock"]
  /\ signUnchanged

\* h.pubKeyUploadMu.Lock().
KeyLock(p) ==
  /\ sh.at[p] = "lock"
  /\ sh.w = 0
  /\ sh' = [sh EXCEPT !.w = p, !.at[p] = "check"]
  /\ signUnchanged

\* A variant that goes to the stat without looking at the flag again.
KeyNoRecheck(p) ==
  /\ sh.at[p] = "check"
  /\ sh' = [sh EXCEPT !.at[p] = "stat"]
  /\ signUnchanged

\* The second look at pubKeyUploaded, under the write lock.
KeyRecheck(p) ==
  /\ sh.at[p] = "check"
  /\ sh' = IF sh.pubKeyUploaded
             THEN [sh EXCEPT !.at[p] = "idle", !.out[p] = "nil", !.w = 0]
             ELSE [sh EXCEPT !.at[p] = "stat"]
  /\ signUnchanged

\* blobserver.StatBlob(sto, h.pubKeyBlobRef) and the branch on its error.
KeyStat(p) ==
  /\ sh.at[p] = "stat"
  /\ \E statErr \in BOOLEAN :
       sh' = IF SignStatBlob(sh.has, statErr) = "nil"
               THEN [sh EXCEPT !.pubKeyUploaded = TRUE, !.at[p] = "idle",
                               !.out[p] = "nil", !.w = 0,
                               !.stats = @ + 1, !.hits = @ + 1]
               ELSE [sh EXCEPT !.at[p] = "receive", !.stats = @ + 1]
  /\ signUnchanged

\* blobserver.Receive(sto, h.pubKeyBlobRef, ...) and the return.
KeyReceive(p) ==
  /\ sh.at[p] = "receive"
  /\ \E ok \in BOOLEAN :
       sh' = IF ok
               THEN [sh EXCEPT !.pubKeyUploaded = TRUE, !.has = TRUE,
                               !.at[p] = "idle", !.out[p] = "nil", !.w = 0,
                               !.receives = @ + 1]
               ELSE [sh EXCEPT !.at[p] = "idle", !.out[p] = "error", !.w = 0,
                               !.failed = @ + 1]
  /\ signUnchanged

InitSignHandler ==
  /\ IndexInit(Env({}, 0, FALSE), FALSE)
  /\ qin = noQuery /\ qout = noQuery
  /\ en = << >> /\ ctxDone = FALSE /\ me = noMerge /\ ea = noEnumAll
  /\ co = noCorpus /\ cm = corpusMu /\ hc = noClient
  /\ cx = noContext /\ hub = noHub /\ host = noHost
  /\ \E has \in BOOLEAN : sh = newSignHandler(has)
NextSignHandler ==
  \/ \E p \in KeyCallers : KeyCall(p)
  \/ \E p \in KeyCallers : KeyFastPath(p)
  \/ \E p \in KeyCallers : KeyLock(p)
  \/ \E p \in KeyCallers : KeyRecheck(p)
  \/ \E p \in KeyCallers : KeyStat(p)
  \/ \E p \in KeyCallers : KeyReceive(p)
SpecSignHandler == InitSignHandler /\ [][NextSignHandler]_vars

\* C40: uploadPublicKey uploads the key successfully at most once, also
\* with concurrent callers: pubKeyUploaded is true exactly after one stat
\* hit or one successful receive, once it is true no call touches the
\* storage, and a call that returns an error leaves it false.
C40_KeyUploadedAtMostOnce ==
  /\ [](/\ sh.receives <= 1
        /\ sh.pubKeyUploaded <=> sh.hits + sh.receives = 1)
  /\ [][/\ sh.pubKeyUploaded =>
             (sh'.stats = sh.stats /\ sh'.receives = sh.receives
                /\ sh'.failed = sh.failed /\ sh'.pubKeyUploaded)
        /\ \A p \in KeyCallers :
             (sh.out[p] = "none" /\ sh'.out[p] = "error") => ~sh'.pubKeyUploaded]_vars
C40_Witness ==
  /\ sh.pubKeyUploaded /\ sh.receives = 1 /\ sh.failed > 0
  /\ sh.calls = MaxKeyCalls
  /\ \A p \in KeyCallers : sh.at[p] = "idle" /\ sh.out[p] = "nil"

====
